---- MODULE Spec2Model ----
(***************************************************************************)
(* A model of donseba/go-router: the Router tree (Group / Use / handle),   *)
(* the per-request status interception (routingStatusInterceptWriter and   *)
(* excludeHeaderWriter) and the OpenAPI path table with the synthesized    *)
(* OPTIONS handlers.                                                       *)
(*                                                                         *)
(* Strings are sequences of tokens: "/" is the separator, "{$}" the exact  *)
(* match marker, "{id}" a placeholder, any other token a run of letters.   *)
(***************************************************************************)
EXTENDS Integers, Sequences, FiniteSets, TLC

(* ------------------------------ bounds -------------------------------- *)

MaxNodes == 3

MaxUses == 3

MaxRoutes == 2

MaxSlack == 1

MaxOps == 5

MaxCalls == 3

MaxRequests == 2

\* Calls of HandleStatus before the request.
MaxStatusCalls == 2

MaxOrigins == 2

(* ------------------------------ state --------------------------------- *)

VARIABLES
    nodes,      \* Router values by id (1 is the one New returned): basePath, parent,
                \* middlewares, openapiDocs, redirectTrailingSlash
    heap,       \* backing arrays of the middlewares slices, by array id
    routes,     \* what mux.Handle has bound: method, pattern, finalHandler
    useLog,     \* history: the node of each Use call, in order; middleware k is the one of call k
    groupLog,   \* history: per node, the sub-path Group was called with, and the Use calls made before
    trace,      \* the calls made while the last request ran through a route
    handleStatus, \* r.handleStatus: the map from status code to override handler
    pc,         \* where the request being served is: idle, dispatch (in mux.ServeHTTP), done
    req,        \* the request being served, or served last: method and path
    w,          \* the response writers of the request: header map, real writer, interceptor
    delegateLog,  \* history: the calls the delegated dispatch made on the interceptor
    overrideLog,  \* history: the override handler invoked, the Allow header it saw, its calls
    paths,      \* openapi.Paths of the root: the map from path to PathItem
    options,    \* the OPTIONS handlers bound in the mux: path -> the Allow list of the handler
    once,       \* whether r.once has run
    synthesized, \* history: the routes that were bound when r.once ran
    schemas,    \* openapi.Components.Schemas of the root: the map from name to Schema
    servers,    \* openapi.Servers of the root
    fault,      \* the panic the last call ended with, if it did
    threads,    \* concurrent calls of ServeHTTP: where each is in r.once.Do
    onceM,      \* the mutex of r.once: the call that holds it, or 0
    synthRuns,  \* history: how many times the body of r.once.Do has run
    cors,       \* the request a CORS middleware served last: its options, the
                \* request's headers and whether the wrapped handler was invoked
    mu,         \* the root's RWMutex: the goroutine holding it for writing (or 0)
                \* and the goroutines holding it for reading
    acc,        \* per goroutine: the operation it runs and the shared field it
                \* is reading or writing just now
    statusLog   \* the calls of HandleStatus so far: the node, the code, the handler

treeVars == <<nodes, heap, routes, useLog, groupLog, trace>>

reqVars == <<handleStatus, pc, req, w, delegateLog, overrideLog>>

docVars == <<paths, options, once, synthesized>>

extVars == <<schemas, servers, fault, threads, onceM, synthRuns>>

mwVars == <<cors, mu, acc, statusLog>>

vars == <<nodes, heap, routes, useLog, groupLog, trace,
          handleStatus, pc, req, w, delegateLog, overrideLog,
          paths, options, once, synthesized,
          schemas, servers, fault, threads, onceM, synthRuns,
          cors, mu, acc, statusLog>>

\* No panic.
NoFault == "none"

(* ------------------------------ strings ------------------------------- *)

Slash == "/"

\* router.go handle, lines 253-257: "" becomes "/", a missing leading "/" is added.
NormalizeBroken(pattern) ==
    IF pattern = <<>> THEN <<Slash>> ELSE pattern

Normalize(pattern) ==
    IF pattern = <<>> THEN <<Slash>>
    ELSE IF pattern[1] # Slash THEN <<Slash>> \o pattern
    ELSE pattern

\* router.go handle, lines 249-257: the pattern handed to registerRoute.
FullPattern(basePath, pattern) ==
    Normalize(IF basePath # <<>> THEN basePath \o pattern ELSE pattern)

(* ------------------------------ slices -------------------------------- *)

\* A slice header: the backing array (0: none) and the length. The capacity
\* is the length of the backing array.
NilSlice == [arr |-> 0, len |-> 0]

Cap(h, s) == IF s.arr = 0 THEN 0 ELSE Len(h[s.arr])

\* The elements a slice header denotes.
Elems(h, s) == IF s.arr = 0 THEN <<>> ELSE SubSeq(h[s.arr], 1, s.len)

\* A fresh backing array of capacity c holding elems.
NewArray(elems, c) == [i \in 1..c |-> IF i <= Len(elems) THEN elems[i] ELSE 0]

\* The capacities the runtime may pick for a grown array of `need` elements.
GrowCaps(need) == need..(need + MaxSlack)

\* r.middlewares of node n, as a sequence.
MwList(n) == Elems(heap, nodes[n].middlewares)

(* ------------------------------ the tree ------------------------------ *)

SubPaths == {<<>>, <<Slash, "a">>, <<"b">>}

Patterns == {<<>>, <<Slash, "x">>, <<"x">>}

TreeMethods == {"GET", "POST"}

NodeIds == 1..Len(nodes)

\* The registration calls made so far: Group, Use and handle.
OpsDone == (Len(nodes) - 1) + Len(useLog) + Cardinality(routes)

\* rootParent, router.go lines 349-354.
RECURSIVE rootParent(_)
rootParent(n) == IF nodes[n].parent = 0 THEN n ELSE rootParent(nodes[n].parent)

\* The basePath Group gives the sub-router, router.go line 115.
GroupBasePathOwnOnly(parentPath, sub) == sub

GroupBasePath(parentPath, sub) == parentPath \o sub

\* append([]Middleware{}, r.middlewares...), router.go line 117: the elements
\* of s copied to a fresh backing array of capacity c (no array at all when
\* there is nothing to copy). Gives the heap and the new slice header.
ShareSlice(h, s, c) == [heap |-> h, slice |-> s]

CopySlice(h, s, c) ==
    IF s.len = 0 THEN [heap |-> h, slice |-> NilSlice]
    ELSE [heap |-> Append(h, NewArray(Elems(h, s), c)),
          slice |-> [arr |-> Len(h) + 1, len |-> s.len]]

\* Group, router.go lines 113-125: the sub-router gets r.basePath + basePath,
\* a copy of r.middlewares, r as its parent and r's two flags; fn may then use
\* it at any time.
Group(p, sub) ==
    /\ fault = NoFault
    /\ Len(nodes) < MaxNodes
    /\ OpsDone < MaxOps
    /\ \E c \in GrowCaps(nodes[p].middlewares.len) :
          LET copy == CopySlice(heap, nodes[p].middlewares, c)
          IN  /\ heap' = copy.heap
              /\ nodes' = Append(nodes, [basePath |-> GroupBasePath(nodes[p].basePath, sub),
                                         parent |-> p,
                                         middlewares |-> copy.slice,
                                         openapiDocs |-> nodes[p].openapiDocs,
                                         redirectTrailingSlash |->
                                             nodes[p].redirectTrailingSlash])
    /\ groupLog' = Append(groupLog, [sub |-> sub, seen |-> Len(useLog)])
    /\ UNCHANGED <<routes, useLog, trace>>
    /\ UNCHANGED reqVars
    /\ UNCHANGED extVars
    /\ UNCHANGED docVars
    /\ UNCHANGED mwVars

\* UseOpenapiDocs, router.go lines 131-133.
UseOpenapiDocs(n, use) ==
    /\ fault = NoFault
    /\ nodes[n].openapiDocs # use
    /\ nodes' = [nodes EXCEPT ![n].openapiDocs = use]
    /\ UNCHANGED <<heap, routes, useLog, groupLog, trace>>
    /\ UNCHANGED reqVars
    /\ UNCHANGED extVars
    /\ UNCHANGED docVars
    /\ UNCHANGED mwVars

\* Whether the backing array of n's slice is absent or also referenced by
\* another node. An array only n references is garbage once n's slice moves
\* to a grown array, and its id is reused for the grown one.
Shared(n) ==
    \/ nodes[n].middlewares.arr = 0
    \/ \E k \in NodeIds : k # n /\ nodes[k].middlewares.arr = nodes[n].middlewares.arr

\* Use, router.go lines 147-149: r.middlewares = append(r.middlewares, middleware).
\* append writes in place when the capacity allows and otherwise moves the
\* elements to a grown array. The middleware gets the number of its Use call.
Use(n) ==
    /\ Len(useLog) < MaxUses
    /\ OpsDone < MaxOps
    /\ LET s == nodes[n].middlewares
           m == Len(useLog) + 1
       IN  \/ /\ s.len < Cap(heap, s)
              /\ heap' = [heap EXCEPT ![s.arr][s.len + 1] = m]
              /\ nodes' = [nodes EXCEPT ![n].middlewares.len = s.len + 1]
           \/ /\ s.len = Cap(heap, s)
              /\ \E c \in GrowCaps(s.len + 1) :
                    LET a == IF Shared(n) THEN Len(heap) + 1 ELSE s.arr
                    IN  /\ heap' = [i \in 1..(IF a > Len(heap) THEN a ELSE Len(heap)) |->
                                      IF i = a THEN NewArray(Append(Elems(heap, s), m), c)
                                      ELSE heap[i]]
                        /\ nodes' = [nodes EXCEPT ![n].middlewares =
                                        [arr |-> a, len |-> s.len + 1]]
    /\ useLog' = Append(useLog, n)
    /\ UNCHANGED <<routes, groupLog, trace>>
    /\ UNCHANGED reqVars
    /\ UNCHANGED extVars
    /\ UNCHANGED docVars
    /\ UNCHANGED mwVars

\* registerRoute, router.go lines 271-273: for i := len-1 .. 0, finalHandler =
\* r.middlewares[i](finalHandler). A handler is the sequence of the middlewares
\* around it, outermost first; <<>> is the bare handler.
RECURSIVE WrapFrom(_, _, _)
WrapFrom(mws, i, final) ==
    IF i < 1 THEN final ELSE WrapFrom(mws, i - 1, <<mws[i]>> \o final)

RECURSIVE WrapForward(_, _, _)
WrapForward(mws, i, final) ==
    IF i > Len(mws) THEN final ELSE WrapForward(mws, i + 1, <<mws[i]>> \o final)

ComposeReversed(mws) == WrapForward(mws, 1, <<>>)

Compose(mws) == WrapFrom(mws, Len(mws), <<>>)

BoundNever(method, pattern) == FALSE

\* http.ServeMux.Handle panics when the same method and pattern are bound twice.
Bound(method, pattern) ==
    \E r \in routes : r.method = method /\ r.pattern = pattern

\* The panic of http.ServeMux.Handle for such a pattern.
MuxConflict == "mux"

(* ----------------------------- path table ----------------------------- *)

\* A sample value of a declaration (DocOut.Object, DocIn.Object): its kind,
\* the name of its struct type and the fields of that type. kind is "struct",
\* "ptr" (pointer to a struct), "slice" (of structs), "prim" (a string),
\* "slicePrim" (a slice of strings) or "nil" (the entry has a nil Object);
\* NoSample stands for a nil map (doc.Out or doc.In not given).
NoFields == <<>>

NoSample == [kind |-> "absent", name |-> "", shape |-> NoFields]

\* The variadic docs argument of a register call: none, or a declaration.
NoDocs == [given |-> FALSE, summary |-> "", out |-> NoSample, in |-> NoSample]

\* A declaration with neither In nor Out.
PlainDoc == [given |-> TRUE, summary |-> "doc", out |-> NoSample, in |-> NoSample]

\* A nil *Operation.
NoOperation == [operationID |-> <<>>, doc |-> NoDocs]

\* The fields of PathItem, openapi.go lines 29-35, in the order Methods and
\* getMethodsForPattern go through them.
ItemMethods == <<"GET", "POST", "PUT", "DELETE", "PATCH">>

\* PathItem{}: every field nil.
EmptyPathItem == [m \in {ItemMethods[i] : i \in DOMAIN ItemMethods} |-> NoOperation]

\* PathItem.Methods, openapi.go lines 37-55.
Methods(item) == SelectSeq(ItemMethods, LAMBDA m : item[m] # NoOperation)

\* PathItem.SetMethod, openapi.go lines 57-72: a method that is none of the
\* five fields is not recorded.
SetMethodIfUnset(item, method, operation) ==
    IF method \in DOMAIN item /\ item[method] = NoOperation
    THEN [item EXCEPT ![method] = operation]
    ELSE item

SetMethod(item, method, operation) ==
    IF method \in DOMAIN item THEN [item EXCEPT ![method] = operation] ELSE item

\* strings.ReplaceAll(pattern, "{$}", ""), router.go line 289.
StripPattern(pattern) == SelectSeq(pattern, LAMBDA t : t # "{$}")

\* The panic of package reflect: Type() of the zero Value, NumField() of a
\* Value that is no struct.
ReflectPanic == "reflect"

\* reflect.ValueOf(Object), and Elem() of it when it is a pointer.
Deref(sample) == IF sample.kind = "ptr" THEN [sample EXCEPT !.kind = "struct"] ELSE sample

\* obj.Type().Name(): the name of a struct type, "string", "" for a slice type.
TypeName(sample) ==
    IF sample.kind = "struct" THEN sample.name
    ELSE IF sample.kind = "prim" THEN "string"
    ELSE ""

\* The last field of a struct type that gives a property its name: a later
\* properties[fieldName] = ... replaces an earlier one.
\* names[i] is the name the property of fields[i] gets.
LastNamed(fields, names, n) ==
    fields[CHOOSE i \in DOMAIN fields :
              /\ names[i] = n
              /\ \A j \in DOMAIN fields : names[j] = n => j <= i]

\* handleDocOut, part_005 lines 469-474: the name of the property of a field
\* is the json tag up to its first comma, when there is a tag other than "-",
\* and else the name of the field. tag is that part of the tag.
OutFieldName(f) == IF f.tag # "" /\ f.tag # "-" THEN f.tag ELSE f.name

\* handleDocOut, part_005 lines 476-493: the switch on the kind of the field.
OutTypeName(kind) ==
    CASE kind = "string" -> "string"
      [] kind = "int" -> "integer"
      [] kind = "float64" -> "number"
      [] kind = "bool" -> "boolean"
      [] kind = "struct" -> "object"
      [] kind = "slice" -> "array"
      [] OTHER -> "string"

\* handleDocOut, part_005 lines 467-498: the properties of the fields.
OutProperties(fields) ==
    [n \in {OutFieldName(fields[i]) : i \in DOMAIN fields} |->
        [type |-> OutTypeName(LastNamed(fields, [i \in DOMAIN fields |-> OutFieldName(fields[i])], n).kind)]]

\* handleDocIn, part_005 lines 553-554: the name of the property is the name
\* of the field, its type is field.Type().Name(), the name of the Go type,
\* which a slice type has none of.
InFieldName(f) == f.name

InTypeName(kind) == IF kind = "slice" THEN "" ELSE kind

\* handleDocIn, part_005 lines 550-559: the properties of the fields.
InProperties(fields) ==
    [n \in {InFieldName(fields[i]) : i \in DOMAIN fields} |->
        [type |-> InTypeName(LastNamed(fields, [i \in DOMAIN fields |-> InFieldName(fields[i])], n).kind)]]

\* Schema{Type: pType, Properties: properties}.
SchemaOf(pType, properties) == [type |-> pType, properties |-> properties]

NoComponents == [k \in {} |-> SchemaOf("object", OutProperties(NoFields))]

\* handleDocOut, part_005 lines 430-534, for a map with at most one entry: the
\* component schemas to add, whether a response was built, and the panic it
\* ends with if it does. A nil Object gives a response without schema; a
\* slice is taken as its element type; the fields are then read with NumField.
handleDocOut(sample, store) ==
    LET obj == Deref(sample)
        elem == IF obj.kind = "slice" THEN [obj EXCEPT !.kind = "struct"]
                ELSE IF obj.kind = "slicePrim" THEN [obj EXCEPT !.kind = "prim"]
                ELSE obj
    IN  IF sample.kind = "absent"
        THEN [fault |-> NoFault, components |-> NoComponents, built |-> FALSE]
        ELSE IF sample.kind = "nil"
        THEN [fault |-> NoFault, components |-> NoComponents, built |-> TRUE]
        ELSE IF TypeName(obj) \in DOMAIN store
        THEN [fault |-> NoFault, components |-> NoComponents, built |-> TRUE]
        ELSE IF elem.kind # "struct"
        THEN [fault |-> ReflectPanic, components |-> NoComponents, built |-> FALSE]
        ELSE [fault |-> NoFault,
              components |-> [k \in {TypeName(elem)} |->
                                SchemaOf(IF obj.kind = "slice" THEN "array" ELSE "object",
                                         OutProperties(elem.shape))],
              built |-> TRUE]

\* handleDocIn, router.go lines 515-568, for a map with at most one entry.
\* Type() is called on the Value of a nil Object, and NumField on whatever the
\* Object is.
handleDocIn(sample, store) ==
    LET obj == Deref(sample)
    IN  IF sample.kind = "absent"
        THEN [fault |-> NoFault, components |-> NoComponents, built |-> FALSE]
        ELSE IF sample.kind = "nil"
        THEN [fault |-> ReflectPanic, components |-> NoComponents, built |-> FALSE]
        ELSE IF TypeName(obj) \in DOMAIN store
        THEN [fault |-> NoFault, components |-> NoComponents, built |-> TRUE]
        ELSE IF obj.kind # "struct"
        THEN [fault |-> ReflectPanic, components |-> NoComponents, built |-> FALSE]
        ELSE [fault |-> NoFault,
              components |-> [k \in {TypeName(obj)} |->
                                SchemaOf("object", InProperties(obj.shape))],
              built |-> TRUE]

\* The loops of registerDocs, router.go lines 316-323 and 331-338: a component
\* is stored only under a name the store does not have yet.
MergeSchemasOverwrite(store, components) ==
    [k \in DOMAIN store \cup DOMAIN components |->
        IF k \in DOMAIN components THEN components[k] ELSE store[k]]

MergeSchemas(store, components) ==
    [k \in DOMAIN store \cup DOMAIN components |->
        IF k \in DOMAIN store THEN store[k] ELSE components[k]]

\* strings.TrimRight(strings.TrimLeft(part, "{"), "}"), router.go line 433,
\* for the segments the patterns here are made of.
TrimBraces(part) ==
    CASE part = "{x}" -> "x"
      [] part = "{y}" -> "y"
      [] OTHER -> part

\* strings.Title(part), router.go line 434: the first letter in upper case.
Title(part) ==
    CASE part = "x" -> "X"
      [] part = "y" -> "Y"
      [] part = "a" -> "A"
      [] part = "f" -> "F"
      [] part = "s" -> "S"
      [] part = "root" -> "Root"
      [] OTHER -> part

\* Router.OperationID, router.go lines 423-437: "" and "/" become "root";
\* the string is split at "/", every part that is not empty loses its braces
\* and gets its first letter in upper case, and the parts are joined with
\* nothing between them. A token that follows another within a part keeps
\* its case.
RECURSIVE TitledParts(_, _)
TitledParts(s, i) ==
    IF i > Len(s) THEN <<>>
    ELSE (IF s[i] = Slash THEN <<>>
          ELSE IF i = 1 \/ s[i - 1] = Slash THEN <<Title(TrimBraces(s[i]))>>
          ELSE <<TrimBraces(s[i])>>) \o TitledParts(s, i + 1)

OperationID(s) == TitledParts(IF s = <<>> \/ s = <<Slash>> THEN <<"root">> ELSE s, 1)

\* A register call that tests nothing.
NoDeclarationNever(docs) == FALSE

\* len(docs) == 0, router.go line 284.
NoDeclaration(docs) == docs = NoDocs

\* handleDocOut, part_005 lines 440-531, for a map with several entries,
\* given in the order the range statement goes through them: every entry is
\* looked up in the store as it was passed, and a component written for a
\* name replaces the one an earlier entry wrote for it.
RECURSIVE handleDocOutLoop(_, _, _)
handleDocOutLoop(entries, store, sofar) ==
    IF entries = <<>> THEN sofar
    ELSE LET r == handleDocOut(Head(entries), store)
         IN  IF r.fault # NoFault THEN r
             ELSE handleDocOutLoop(
                      Tail(entries), store,
                      [fault |-> NoFault,
                       components |-> [k \in DOMAIN sofar.components \cup DOMAIN r.components |->
                                         IF k \in DOMAIN r.components THEN r.components[k]
                                         ELSE sofar.components[k]],
                       built |-> sofar.built \/ r.built])

handleDocOutMap(entries, store) ==
    handleDocOutLoop(entries, store,
                     [fault |-> NoFault, components |-> NoComponents, built |-> FALSE])

\* registerDocs, router.go lines 283-347, after the test for a declaration,
\* with out what handleDocOut gave for doc.Out: the components of doc.Out and
\* then of doc.In are stored, and the PathItem found under pattern, with the
\* Operation set for method, is stored under the stripped pattern. Gives the
\* new openapi.Paths and Components.Schemas, and the panic the call ends with
\* if it does.
registerDocsWith(pt, store, method, pattern, docs, out) ==
         LET stripPattern == StripPattern(pattern)
             pathItem == IF pattern \in DOMAIN pt THEN pt[pattern] ELSE EmptyPathItem
             op == [operationID |-> <<method>> \o OperationID(stripPattern), doc |-> docs]
             store1 == MergeSchemas(store, out.components)
             in == handleDocIn(docs.in, store1)
             store2 == MergeSchemas(store1, in.components)
         IN  IF out.fault # NoFault
             THEN [paths |-> pt, schemas |-> store, fault |-> out.fault]
             ELSE IF in.fault # NoFault
             THEN [paths |-> pt, schemas |-> store1, fault |-> in.fault]
             ELSE [paths |-> [k \in DOMAIN pt \cup {stripPattern} |->
                                IF k = stripPattern THEN SetMethod(pathItem, method, op)
                                ELSE pt[k]],
                   schemas |-> store2,
                   fault |-> NoFault]

\* registerDocs, router.go lines 283-347: nothing without a declaration.
registerDocs(pt, store, method, pattern, docs) ==
    IF NoDeclaration(docs) THEN [paths |-> pt, schemas |-> store, fault |-> NoFault]
    ELSE registerDocsWith(pt, store, method, pattern, docs, handleDocOut(docs.out, store))

\* getMethodsForPattern, router.go lines 375-399.
getMethodsForPattern(pt, pattern) ==
    IF pattern \in DOMAIN pt
    THEN SelectSeq(ItemMethods, LAMBDA m : pt[pattern][m] # NoOperation)
    ELSE <<>>

\* PrependIfMissing, router.go lines 356-364.
PrependIfMissing(slice, str) ==
    IF \E i \in DOMAIN slice : slice[i] = str THEN slice ELSE <<str>> \o slice

\* registerOptionsHandler, router.go lines 401-421: nothing for a path that
\* is not in openapi.Paths or has no method there; else "OPTIONS " + pattern is
\* bound to a handler that answers with the methods known now and OPTIONS.
\* Gives the new OPTIONS handlers of the mux.
registerOptionsHandler(opts, pt, pattern) ==
    IF pattern \notin DOMAIN pt \/ Methods(pt[pattern]) = <<>> THEN opts
    ELSE [k \in DOMAIN opts \cup {pattern} |->
            IF k = pattern THEN PrependIfMissing(Methods(pt[pattern]), "OPTIONS")
            ELSE opts[k]]

\* The body of r.once.Do in ServeHTTP, router.go lines 198-203:
\* registerOptionsHandler for every key of openapi.Paths.
RECURSIVE RegisterOptionsHandlers(_, _, _)
RegisterOptionsHandlers(opts, pt, todo) ==
    IF todo = {} THEN opts
    ELSE LET p == CHOOSE p \in todo : TRUE
         IN  RegisterOptionsHandlers(registerOptionsHandler(opts, pt, p), pt, todo \ {p})

(* ----------------------------- registration --------------------------- *)

\* handle, registerRoute and registerDocs, router.go lines 248-347: the route
\* is bound in the mux of the root and, when documentation is on for the node,
\* documented in the path table of the root.
Handle(n, method, pattern, docs) ==
    /\ fault = NoFault
    /\ Cardinality(routes) < MaxRoutes
    /\ OpsDone < MaxOps
    /\ LET full == FullPattern(nodes[n].basePath, pattern)
           res == IF nodes[n].openapiDocs
                  THEN registerDocs(paths, schemas, method, full, docs)
                  ELSE [paths |-> paths, schemas |-> schemas, fault |-> NoFault]
       IN  /\ ~Bound(method, full)
           /\ routes' = routes \cup {[method |-> method,
                                       pattern |-> full,
                                       finalHandler |-> Compose(MwList(n)),
                                       node |-> n,
                                       own |-> pattern,
                                       seen |-> Len(useLog)]}
           /\ paths' = res.paths
           /\ schemas' = res.schemas
           /\ fault' = res.fault
    /\ UNCHANGED <<nodes, heap, useLog, groupLog, trace>>
    /\ UNCHANGED reqVars
    /\ UNCHANGED <<options, once, synthesized>>
    /\ UNCHANGED <<servers, threads, onceM, synthRuns>>
    /\ UNCHANGED mwVars

\* A register call on the root, documentation on, with a declaration whose
\* Out has two entries, entries[1] under "200" and entries[2] under "404";
\* order is the order in which range goes through the map, which Go leaves
\* open.
HandleOuts(method, pattern, entries, order) ==
    /\ fault = NoFault
    /\ nodes[1].openapiDocs
    /\ Cardinality(routes) < MaxRoutes
    /\ OpsDone < MaxOps
    /\ LET full == FullPattern(nodes[1].basePath, pattern)
           docs == [given |-> TRUE, summary |-> "outs", out |-> entries[1], in |-> NoSample,
                    out404 |-> entries[2]]
           res == registerDocsWith(paths, schemas, method, full, docs,
                                   handleDocOutMap(<<entries[order[1]], entries[order[2]]>>,
                                                   schemas))
       IN  /\ ~Bound(method, full)
           /\ routes' = routes \cup {[method |-> method,
                                       pattern |-> full,
                                       finalHandler |-> Compose(MwList(1)),
                                       node |-> 1,
                                       own |-> pattern,
                                       seen |-> Len(useLog)]}
           /\ paths' = res.paths
           /\ schemas' = res.schemas
           /\ fault' = res.fault
    /\ UNCHANGED <<nodes, heap, useLog, groupLog, trace>>
    /\ UNCHANGED reqVars
    /\ UNCHANGED <<options, once, synthesized>>
    /\ UNCHANGED <<servers, threads, onceM, synthRuns>>
    /\ UNCHANGED mwVars

\* The same register call when the method and the full pattern are bound
\* already: registerRoute, router.go lines 265-281, panics in r.mux.Handle,
\* before the route is documented, and nothing is registered.
HandleTwice(n, method, pattern, docs) ==
    /\ fault = NoFault
    /\ OpsDone < MaxOps
    /\ Bound(method, FullPattern(nodes[n].basePath, pattern))
    /\ fault' = MuxConflict
    /\ UNCHANGED treeVars
    /\ UNCHANGED reqVars
    /\ UNCHANGED docVars
    /\ UNCHANGED <<schemas, servers, threads, onceM, synthRuns>>
    /\ UNCHANGED mwVars

\* An Unlock that a panic passes by.
UnlockSkipped(m, g) == m

\* Lock and Unlock of a sync.RWMutex m by goroutine g.
Locked(m, g) == [m EXCEPT !.writer = g]

Unlocked(m, g) ==
    [writer |-> IF m.writer = g THEN 0 ELSE m.writer, readers |-> m.readers \ {g}]

\* The goroutine that registers routes.
Registrar == 1

\* The register call for a method and full pattern that are bound already,
\* with the lock: handle, router.go lines 248-263, calls registerRoute first;
\* registerRoute, lines 265-281, takes rootRouter.mu, defers the Unlock and
\* panics in r.mux.Handle; the deferred Unlock runs as the panic unwinds, and
\* registerDocs is not reached.
HandleConflict(n, method, pattern, docs) ==
    /\ fault = NoFault
    /\ OpsDone < MaxOps
    /\ Bound(method, FullPattern(nodes[n].basePath, pattern))
    /\ mu.writer = 0 /\ mu.readers = {}
    /\ mu' = Unlocked(Locked(mu, Registrar), Registrar)
    /\ fault' = MuxConflict
    /\ UNCHANGED treeVars
    /\ UNCHANGED reqVars
    /\ UNCHANGED docVars
    /\ UNCHANGED <<schemas, servers, threads, onceM, synthRuns>>
    /\ UNCHANGED <<cors, acc, statusLog>>

\* The fields mux and openapi of a node: New sets them for the root, Group
\* (router.go lines 114-122, part_005 lines 117-124) leaves them nil in the
\* sub-router.
HasMux(n) == nodes[n].parent = 0

\* The panic of a method call or field access through a nil pointer.
NilPointer == "nil pointer"

\* The end of ServeFile and ServeFiles: r.mux.Handle("GET "+pattern, finalHandler)
\* with the node's own mux field and its own middlewares.
MuxHandle(n, pattern) ==
    /\ fault = NoFault
    /\ OpsDone < MaxOps
    /\ Cardinality(routes) < MaxRoutes
    /\ IF ~HasMux(n)
       THEN fault' = NilPointer /\ routes' = routes
       ELSE IF Bound("GET", pattern)
       THEN fault' = MuxConflict /\ routes' = routes
       ELSE /\ fault' = NoFault
            /\ routes' = routes \cup {[method |-> "GET",
                                        pattern |-> pattern,
                                        finalHandler |-> Compose(MwList(n)),
                                        node |-> n,
                                        own |-> pattern,
                                        seen |-> Len(useLog)]}
    /\ UNCHANGED <<nodes, heap, useLog, groupLog, trace>>
    /\ UNCHANGED reqVars
    /\ UNCHANGED docVars
    /\ UNCHANGED <<schemas, servers, threads, onceM, synthRuns>>
    /\ UNCHANGED mwVars

\* ServeFile, router.go lines 174-193: the pattern is r.basePath + pattern as
\* it is, without the normalization of handle.
ServeFile(n, pattern) == MuxHandle(n, nodes[n].basePath \o pattern)

\* ServeFiles, router.go lines 151-172: the same with a final "/" added when
\* the pattern has none.
ServeFiles(n, pattern) ==
    LET full == nodes[n].basePath \o pattern
    IN  MuxHandle(n, IF full = <<>> \/ full[Len(full)] # Slash
                     THEN full \o <<Slash>> ELSE full)

\* AddServerEndpoint, router.go lines 82-87: append to r.openapi.Servers of
\* the node's own openapi field.
AddServerEndpoint(n, url) ==
    /\ fault = NoFault
    /\ Len(servers) < MaxCalls
    /\ IF ~HasMux(n)
       THEN fault' = NilPointer /\ servers' = servers
       ELSE fault' = NoFault /\ servers' = Append(servers, url)
    /\ UNCHANGED treeVars
    /\ UNCHANGED reqVars
    /\ UNCHANGED docVars
    /\ UNCHANGED <<schemas, threads, onceM, synthRuns>>
    /\ UNCHANGED mwVars

\* What runs when the handler of a route is invoked: each middleware does its
\* part before and after calling the handler it wraps.
RECURSIVE Exec(_)
Exec(final) ==
    IF final = <<>> THEN << <<"handler", 0>> >>
    ELSE << <<"in", Head(final)>> >> \o Exec(Tail(final)) \o << <<"out", Head(final)>> >>

\* The handler the multiplexer invokes for a bound route.
RouteHandlerLive(r) == Compose(MwList(r.node))

RouteHandler(r) == r.finalHandler

\* A request the multiplexer dispatches to route r.
ServeRoute(r) ==
    /\ fault = NoFault
    /\ trace' = [route |-> r, calls |-> Exec(RouteHandler(r))]
    /\ UNCHANGED <<nodes, heap, routes, useLog, groupLog>>
    /\ UNCHANGED reqVars
    /\ UNCHANGED extVars
    /\ UNCHANGED docVars
    /\ UNCHANGED mwVars

(* --------------------------- response writers ------------------------- *)

StatusOK == 200

StatusNoContent == 204

StatusMovedPermanently == 301

StatusNotFound == 404

StatusMethodNotAllowed == 405

StatusInternalServerError == 500

Codes == {StatusOK, StatusNotFound, StatusMethodNotAllowed}

\* A handler in r.handleStatus is nil, or answers like http.Error (status,
\* then body), or with a body only.
NilHandler == "nil"

Handlers == {"error", "plain"}

\* The header map of a response: Sentinel is HeaderFlagDoNotIntercept ("" when
\* not set); the others are <<>> when not set. AllowOrigin to MaxAge are the
\* Access-Control-... headers of the CORS middleware.
NoHeaders ==
    [Sentinel |-> "", Allow |-> <<>>, Location |-> <<>>, ContentLength |-> <<>>,
     AllowOrigin |-> <<>>, AllowCredentials |-> <<>>, AllowMethods |-> <<>>,
     AllowHeaders |-> <<>>, ExposeHeaders |-> <<>>, MaxAge |-> <<>>]

\* The writers of one request. hdr is the header map all of them share.
\* wroteHeader, status, sentHdr and body are the real writer: what the client
\* gets. calls are the calls the excludeHeaderWriter passed to the real writer.
\* intercepted and statusCode are the routingStatusInterceptWriter.
NewWriter ==
    [hdr |-> NoHeaders,
     wroteHeader |-> FALSE, status |-> 0, sentHdr |-> NoHeaders,
     body |-> <<>>, calls |-> <<>>,
     intercepted |-> FALSE, statusCode |-> 0]

\* The real http.ResponseWriter: the first WriteHeader sends the status line
\* and the headers as they are then; a later one is ignored.
RealWriteHeader(x, code) ==
    IF x.wroteHeader THEN x
    ELSE [x EXCEPT !.wroteHeader = TRUE, !.status = code, !.sentHdr = x.hdr]

\* The real writer's Write sends the status line itself when none was sent.
RealWrite(x, data) ==
    LET y == RealWriteHeader(x, StatusOK)
    IN  [y EXCEPT !.body = Append(y.body, data)]

\* excludeHeaderWriter.WriteHeader: delete the excluded headers, then forward.
ExcludeWriteHeader(x, code) ==
    RealWriteHeader([x EXCEPT !.hdr.Sentinel = "",
                              !.calls = Append(x.calls, <<"WriteHeader", code>>)], code)

\* excludeHeaderWriter has no Write of its own: the embedded writer's is called.
ExcludeWrite(x, data) ==
    RealWrite([x EXCEPT !.calls = Append(x.calls, <<"Write", data>>)], data)

\* The closures ServeHTTP puts in interceptMap, one per entry of handleStatus:
\* v != nil && w.Header().Get(HeaderFlagDoNotIntercept) == "".
InterceptFnNoNilCheck(hs, x, code) ==
    /\ code \in DOMAIN hs
    /\ x.hdr.Sentinel = ""

InterceptFnNoFlag(hs, x, code) ==
    /\ code \in DOMAIN hs
    /\ hs[code] # NilHandler

InterceptFn(hs, x, code) ==
    /\ code \in DOMAIN hs
    /\ hs[code] # NilHandler
    /\ x.hdr.Sentinel = ""

\* routingStatusInterceptWriter.WriteHeader.
InterceptWriteHeader(hs, x, code) ==
    IF x.intercepted THEN x
    ELSE IF InterceptFn(hs, x, code)
         THEN [x EXCEPT !.statusCode = code, !.intercepted = TRUE]
         ELSE ExcludeWriteHeader([x EXCEPT !.statusCode = code], code)

\* routingStatusInterceptWriter.Write.
InterceptWriteForward(x, data) == ExcludeWrite(x, data)

InterceptWrite(x, data) ==
    IF x.intercepted THEN x ELSE ExcludeWrite(x, data)

\* A body token is one byte.
DataLen(data) == 1

\* What routingStatusInterceptWriter.Write returns: 0, nil when intercepted,
\* else what the writer inside returns, which takes all the bytes.
InterceptWriteResult(x, data) ==
    IF x.intercepted THEN [n |-> 0, err |-> "nil"]
    ELSE [n |-> DataLen(data), err |-> "nil"]

\* One call of the delegated dispatch on the interceptor: a header set in
\* w.Header(), WriteHeader or Write.
ApplyCall(hs, x, call) ==
    IF call[1] = "Header" THEN [x EXCEPT !.hdr[call[2]] = call[3]]
    ELSE IF call[1] = "WriteHeader" THEN InterceptWriteHeader(hs, x, call[2])
    ELSE InterceptWrite(x, call[2])

\* The entry of the history for a call: a WriteHeader call is kept with the
\* value the sentinel header had when it was made.
LogCall(x, call) ==
    IF call[1] = "WriteHeader" THEN <<call[1], call[2], x.hdr.Sentinel>> ELSE call

\* The calls one after the other; st is the writer and the history so far.
RECURSIVE RunCalls(_, _, _)
RunCalls(hs, st, calls) ==
    IF calls = <<>> THEN st
    ELSE RunCalls(hs, [w |-> ApplyCall(hs, st.w, Head(calls)),
                       log |-> Append(st.log, LogCall(st.w, Head(calls)))],
                  Tail(calls))

\* An override handler, called with interceptor.ResponseWriter (the
\* excludeHeaderWriter): http.Error(w, text, code), or a body only.
RunOverride(h, x, code) ==
    IF h = "error" THEN ExcludeWrite(ExcludeWriteHeader(x, code), "o")
    ELSE ExcludeWrite(x, "o")

\* The calls RunOverride makes.
OverrideCalls(h, code) ==
    IF h = "error" THEN << <<"WriteHeader", code>>, <<"Write", "o">> >>
    ELSE << <<"Write", "o">> >>

\* When ServeHTTP has returned without a status line sent, the server sends 200.
Flush(x) == RealWriteHeader(x, StatusOK)

(* ---------------------------- the multiplexer -------------------------- *)

\* The methods the mux has a handler for on a path. The patterns bound here
\* are literal paths: a pattern matches the path equal to it.
MuxMethods(rts, opts, path) ==
    {r.method : r \in {x \in rts : x.pattern = path}}
        \cup (IF path \in DOMAIN opts THEN {"OPTIONS"} ELSE {})

\* A GET route also serves HEAD.
MuxServes(ms, method) == method \in ms \/ (method = "HEAD" /\ "GET" \in ms)

SortedMethods == <<"DELETE", "GET", "HEAD", "OPTIONS", "PATCH", "POST", "PUT">>

\* path.Clean and the mux's cleanPath on a path of these tokens: a run of
\* slashes becomes one slash (a final slash is kept, or put back).
RECURSIVE CleanPath(_)
CleanPath(path) ==
    IF Len(path) < 2 THEN path
    ELSE IF path[1] = Slash /\ path[2] = Slash THEN CleanPath(Tail(path))
    ELSE <<path[1]>> \o CleanPath(Tail(path))

\* The mux's cleanPath: the empty path is "/".
MuxCleanPath(path) == IF path = <<>> THEN <<Slash>> ELSE CleanPath(path)

\* The calls made on the interceptor by r.mux.ServeHTTP(interceptor, req): a
\* redirect to the cleaned path when the path is not clean; the
\* synthesized OPTIONS handler (Allow, 204); a bound handler, which writes a
\* body; the mux's own 405 with its Allow header (the methods it serves on the
\* path, sorted); or its 404.
MuxCalls(rts, opts, method, path) ==
    LET ms == MuxMethods(rts, opts, path)
    IN  IF path # MuxCleanPath(path)
        THEN << <<"Header", "Location", MuxCleanPath(path)>>,
                <<"WriteHeader", StatusMovedPermanently>> >>
        ELSE IF method = "OPTIONS" /\ path \in DOMAIN opts
        THEN << <<"Header", "Allow", opts[path]>>, <<"WriteHeader", StatusNoContent>> >>
        ELSE IF MuxServes(ms, method) THEN << <<"Write", "d">> >>
        ELSE IF ms # {}
        THEN << <<"Header", "Allow", SelectSeq(SortedMethods, LAMBDA m : MuxServes(ms, m))>>,
                <<"WriteHeader", StatusMethodNotAllowed>>, <<"Write", "e">> >>
        ELSE << <<"WriteHeader", StatusNotFound>>, <<"Write", "e">> >>

(* ------------------------------ ServeHTTP ----------------------------- *)

NoOverride == [ran |-> <<>>, allow |-> <<>>, calls |-> <<>>]

\* Whether ServeHTTP calls an override handler once the dispatch has returned.
Overridden(hs, x) ==
    /\ x.intercepted
    /\ x.statusCode \in DOMAIN hs
    /\ hs[x.statusCode] \in Handlers

\* The Allow header ServeHTTP sets before the handler of 405 is called:
\* the methods getMethodsForPattern(req.URL.Path) gives, when there are any.
WithAllow(x, allowed) ==
    IF x.statusCode = StatusMethodNotAllowed /\ allowed # <<>>
    THEN [x EXCEPT !.hdr.Allow = allowed]
    ELSE x

\* ServeHTTP after r.mux.ServeHTTP has returned: when intercepted, the handler
\* of the recorded status is called with the excludeHeaderWriter.
AfterDispatch(hs, x, allowed) ==
    IF Overridden(hs, x)
    THEN RunOverride(hs[x.statusCode], WithAllow(x, allowed), x.statusCode)
    ELSE x

\* The history of that call.
OverrideLogOf(hs, x, allowed) ==
    IF Overridden(hs, x)
    THEN [ran |-> <<x.statusCode>>,
          allow |-> WithAllow(x, allowed).hdr.Allow,
          calls |-> OverrideCalls(hs[x.statusCode], x.statusCode)]
    ELSE NoOverride

\* req.URL.Path != "/" && req.URL.Path[len(req.URL.Path)-1] == '/', for a
\* path that is not empty (see IndexPanics).
TrailingSlash(path) == path # <<Slash>> /\ path # <<>> /\ path[Len(path)] = Slash

\* What http.Redirect makes of the url it is given: a url that starts with
\* two slashes names a host and is left as it is, any other is cleaned.
RedirectLocation(url) ==
    IF Len(url) >= 2 /\ url[1] = Slash /\ url[2] = Slash THEN url ELSE CleanPath(url)

\* http.Redirect on the writer ServeHTTP was given: Location, the status and,
\* for GET and HEAD, a body.
Redirect(x, method, location) ==
    LET y == RealWriteHeader([x EXCEPT !.hdr.Location = RedirectLocation(location)],
                             StatusMovedPermanently)
    IN  IF method \in {"GET", "HEAD"} THEN RealWrite(y, "r") ELSE y

\* HandleStatus: r.handleStatus[httpStatus] = handler, before requests are served.
HandleStatus(code, h) ==
    /\ fault = NoFault
    /\ pc = "idle"
    /\ code \notin DOMAIN handleStatus
    /\ handleStatus' = [c \in DOMAIN handleStatus \cup {code} |->
                          IF c = code THEN h ELSE handleStatus[c]]
    /\ UNCHANGED <<pc, req, w, delegateLog, overrideLog>>
    /\ UNCHANGED treeVars
    /\ UNCHANGED extVars
    /\ UNCHANGED docVars
    /\ UNCHANGED mwVars

\* The map the handleStatus field of node n refers to, named by the node whose
\* New made it (part_005 line 71): Group gives the sub-router the map of its
\* parent, handleStatus: r.handleStatus (line 123), and a map is a reference.
RECURSIVE TableOf(_)
TableOf(n) == IF nodes[n].parent = 0 THEN n ELSE TableOf(nodes[n].parent)

\* HandleStatus called on node n, part_005 lines 137-139, before requests are
\* served: the entry is written to the map n refers to, which is the map
\* ServeHTTP of the root reads when it is the root's; a later call for the
\* same code replaces the entry.
HandleStatusOn(n, code, h) ==
    /\ fault = NoFault
    /\ pc = "idle"
    /\ Len(statusLog) < MaxStatusCalls
    /\ statusLog' = Append(statusLog, [node |-> n, code |-> code, handler |-> h])
    /\ handleStatus' = IF TableOf(n) = TableOf(1)
                       THEN [c \in DOMAIN handleStatus \cup {code} |->
                               IF c = code THEN h ELSE handleStatus[c]]
                       ELSE handleStatus
    /\ UNCHANGED <<pc, req, w, delegateLog, overrideLog>>
    /\ UNCHANGED treeVars
    /\ UNCHANGED extVars
    /\ UNCHANGED docVars
    /\ UNCHANGED <<cors, mu, acc>>

\* The setters of router.go, lines 135-145, called on node n before requests
\* are served: r.notFoundHandler = handler and the like, a field of the
\* receiver. Group copies the values the two fields of the parent have when
\* it is called (lines 118-119); ServeHTTP of the root reads the fields of the
\* root (lines 218-244), kept here as the entries of handleStatus.
SetHandlerField(n, code, h) ==
    /\ fault = NoFault
    /\ pc = "idle"
    /\ Len(statusLog) < MaxStatusCalls
    /\ statusLog' = Append(statusLog, [node |-> n, code |-> code, handler |-> h])
    /\ handleStatus' = IF n = 1
                       THEN [c \in DOMAIN handleStatus \cup {code} |->
                               IF c = code THEN h ELSE handleStatus[c]]
                       ELSE handleStatus
    /\ UNCHANGED <<pc, req, w, delegateLog, overrideLog>>
    /\ UNCHANGED treeVars
    /\ UNCHANGED extVars
    /\ UNCHANGED docVars
    /\ UNCHANGED <<cors, mu, acc>>

NotFound(n, h) == SetHandlerField(n, StatusNotFound, h)

MethodNotAllowed(n, h) == SetHandlerField(n, StatusMethodNotAllowed, h)

\* if r.openapiDocs { r.once.Do(...) }, router.go lines 197-204: whether the
\* body of r.once.Do runs in this call of ServeHTTP.
SynthesisDueEveryTime == nodes[1].openapiDocs

SynthesisDue == nodes[1].openapiDocs /\ ~once

\* if r.redirectTrailingSlash && ..., router.go lines 206-211: whether
\* ServeHTTP answers with the redirect instead of dispatching.
RedirectDueFlagIgnored(path) == TrailingSlash(path)

RedirectDue(path) == nodes[1].redirectTrailingSlash /\ TrailingSlash(path)

\* RedirectTrailingSlash, router.go lines 127-129.
RedirectTrailingSlash(n, redirect) ==
    /\ fault = NoFault
    /\ nodes[n].redirectTrailingSlash # redirect
    /\ nodes' = [nodes EXCEPT ![n].redirectTrailingSlash = redirect]
    /\ UNCHANGED <<heap, routes, useLog, groupLog, trace>>
    /\ UNCHANGED reqVars
    /\ UNCHANGED extVars
    /\ UNCHANGED docVars
    /\ UNCHANGED mwVars

\* The panic of an index expression out of range.
IndexOutOfRange == "index out of range"

\* router.go lines 206-207: with r.redirectTrailingSlash set, the path "" is
\* not "/", and req.URL.Path[len(req.URL.Path)-1] is then the index -1.
IndexPanics(path) == nodes[1].redirectTrailingSlash /\ path = <<>>

\* ServeHTTP for such a request, router.go lines 195-207: the synthesis when
\* it is due, and the panic before anything is written.
ServeHTTPPanics(method, path) ==
    /\ pc \in {"idle", "done"}
    /\ IndexPanics(path)
    /\ pc' = "done"
    /\ req' = [method |-> method, path |-> path]
    /\ options' = IF SynthesisDue THEN RegisterOptionsHandlers(options, paths, DOMAIN paths)
                  ELSE options
    /\ once' = (once \/ nodes[1].openapiDocs)
    /\ synthesized' = IF SynthesisDue THEN routes ELSE synthesized
    /\ synthRuns' = IF SynthesisDue THEN synthRuns + 1 ELSE synthRuns
    /\ w' = NewWriter
    /\ delegateLog' = <<>>
    /\ overrideLog' = NoOverride
    /\ fault' = IndexOutOfRange
    /\ UNCHANGED <<handleStatus, paths>>
    /\ UNCHANGED treeVars
    /\ UNCHANGED <<schemas, servers, threads, onceM>>
    /\ UNCHANGED mwVars

\* ServeHTTP as a whole, the mux answering the request from what is bound in
\* it: the OPTIONS handlers are synthesized when documentation is on and
\* r.once has not run; a path with a trailing slash is redirected; else the
\* mux serves the request through the interceptor and the override handler of
\* an intercepted status is called.
ServeHTTP(method, path) ==
    /\ pc \in {"idle", "done"}
    /\ ~IndexPanics(path)
    /\ pc' = "done"
    /\ req' = [method |-> method, path |-> path]
    /\ LET first == SynthesisDue
           opts == IF first THEN RegisterOptionsHandlers(options, paths, DOMAIN paths)
                   ELSE options
       IN  /\ options' = opts
           /\ once' = (once \/ nodes[1].openapiDocs)
           /\ synthesized' = IF first THEN routes ELSE synthesized
           /\ IF RedirectDue(path)
              THEN /\ w' = Redirect(NewWriter, method, SubSeq(path, 1, Len(path) - 1))
                   /\ delegateLog' = <<>>
                   /\ overrideLog' = NoOverride
              ELSE LET d == RunCalls(handleStatus, [w |-> NewWriter, log |-> <<>>],
                                     MuxCalls(routes, opts, method, path))
                       allowed == getMethodsForPattern(paths, path)
                   IN  /\ w' = Flush(AfterDispatch(handleStatus, d.w, allowed))
                       /\ delegateLog' = d.log
                       /\ overrideLog' = OverrideLogOf(handleStatus, d.w, allowed)
    /\ UNCHANGED <<handleStatus, paths>>
    /\ UNCHANGED treeVars
    /\ synthRuns' = IF SynthesisDue THEN synthRuns + 1 ELSE synthRuns
    /\ UNCHANGED <<schemas, servers, fault, threads, onceM>>
    /\ UNCHANGED mwVars

\* ServeHTTP step by step, for a dispatch that may make any calls.
\* This is ServeHTTP up to r.mux.ServeHTTP(interceptor, req), documentation
\* off and no trailing slash in the path: a fresh interceptor around a fresh
\* excludeHeaderWriter around the writer of the request.
StartRequest ==
    /\ fault = NoFault
    /\ pc \in {"idle", "done"}
    /\ ~nodes[1].openapiDocs
    /\ pc' = "dispatch"
    /\ req' = [method |-> "GET", path |-> <<Slash, "x">>]
    /\ w' = NewWriter
    /\ delegateLog' = <<>>
    /\ overrideLog' = NoOverride
    /\ UNCHANGED handleStatus
    /\ UNCHANGED treeVars
    /\ UNCHANGED extVars
    /\ UNCHANGED docVars
    /\ UNCHANGED mwVars

\* A call of the delegated dispatch (the multiplexer's own answer, or a handler
\* with its middlewares) on the interceptor.
DelegateCall(call) ==
    /\ pc = "dispatch"
    /\ Len(delegateLog) < MaxCalls
    /\ w' = ApplyCall(handleStatus, w, call)
    /\ delegateLog' = Append(delegateLog, LogCall(w, call))
    /\ UNCHANGED <<handleStatus, pc, req, overrideLog>>
    /\ UNCHANGED treeVars
    /\ UNCHANGED extVars
    /\ UNCHANGED docVars
    /\ UNCHANGED mwVars

\* The delegated dispatch sets the sentinel header.
DelegateSetSentinel == DelegateCall(<<"Header", "Sentinel", "1">>)

\* The delegated dispatch calls WriteHeader(code) on the interceptor.
DelegateWriteHeader(code) == DelegateCall(<<"WriteHeader", code>>)

\* The delegated dispatch calls Write on the interceptor.
DelegateWrite == DelegateCall(<<"Write", "d">>)

\* r.mux.ServeHTTP has returned: the rest of ServeHTTP, and the server
\* completing the response.
DispatchReturn ==
    /\ pc = "dispatch"
    /\ pc' = "done"
    /\ LET allowed == getMethodsForPattern(paths, req.path)
       IN  /\ w' = Flush(AfterDispatch(handleStatus, w, allowed))
           /\ overrideLog' = OverrideLogOf(handleStatus, w, allowed)
    /\ UNCHANGED <<handleStatus, req, delegateLog>>
    /\ UNCHANGED treeVars
    /\ UNCHANGED extVars
    /\ UNCHANGED docVars
    /\ UNCHANGED mwVars

\* A panic of a route's handler that nothing recovers.
HandlerPanic == "handler"

\* Recover, part_004 lines 8-21: the deferred function recovers the panic of
\* next.ServeHTTP and calls http.Error(w, ..., 500) on the writer the
\* middleware was given, the interceptor: WriteHeader(500), then the text.
RecoverSilent == <<>>

RecoverCalls == << <<"WriteHeader", StatusInternalServerError>>, <<"Write", "e">> >>

\* The handler of the route being served panics. With Recover around it
\* (recover) the calls of Recover are made, r.mux.ServeHTTP returns and
\* ServeHTTP goes on as after any dispatch; without, the panic leaves
\* r.mux.ServeHTTP and ServeHTTP.
HandlerPanics(recover) ==
    /\ pc = "dispatch"
    /\ fault = NoFault
    /\ pc' = "done"
    /\ IF recover
       THEN LET st == RunCalls(handleStatus, [w |-> w, log |-> delegateLog], RecoverCalls)
                allowed == getMethodsForPattern(paths, req.path)
            IN  /\ w' = Flush(AfterDispatch(handleStatus, st.w, allowed))
                /\ delegateLog' = st.log
                /\ overrideLog' = OverrideLogOf(handleStatus, st.w, allowed)
                /\ fault' = NoFault
       ELSE /\ fault' = HandlerPanic
            /\ UNCHANGED <<w, delegateLog, overrideLog>>
    /\ UNCHANGED <<handleStatus, req>>
    /\ UNCHANGED treeVars
    /\ UNCHANGED docVars
    /\ UNCHANGED <<schemas, servers, threads, onceM, synthRuns>>
    /\ UNCHANGED mwVars

(* ------------------------- the CORS middleware ------------------------ *)

StatusForbidden == 403

\* Strings are sequences of tokens; Star is "*", Dot is ".".
Star == "*"

Dot == "."

\* strings.HasPrefix and strings.HasSuffix.
HasPrefix(str, prefix) ==
    Len(prefix) <= Len(str) /\ SubSeq(str, 1, Len(prefix)) = prefix

HasSuffix(str, suffix) ==
    Len(suffix) <= Len(str) /\ SubSeq(str, Len(str) - Len(suffix) + 1, Len(str)) = suffix

\* The loop of CORS over options.AllowedOrigins, cors.go lines 21-33, from
\* entry i on: "*" allows all and ends the loop, "*.x" gives the suffix ".x",
\* any other entry is an exact origin.
RECURSIVE Preprocess(_, _, _)
Preprocess(origins, i, acc0) ==
    IF i > Len(origins) THEN acc0
    ELSE IF origins[i] = <<Star>> THEN [acc0 EXCEPT !.allowAllOrigins = TRUE]
    ELSE IF HasPrefix(origins[i], <<Star, Dot>>)
    THEN Preprocess(origins, i + 1,
                    [acc0 EXCEPT !.wildcardOrigins = Append(@, Tail(origins[i]))])
    ELSE Preprocess(origins, i + 1,
                    [acc0 EXCEPT !.allowedOrigins = Append(@, origins[i])])

\* allowedOrigin of the handler, cors.go lines 44-63: "*", the origin itself
\* when it is allowed, "" when it is not.
AllowedOriginExactOnly(opts, origin) ==
    LET pre == Preprocess(opts.AllowedOrigins, 1,
                          [allowAllOrigins |-> FALSE, allowedOrigins |-> <<>>,
                           wildcardOrigins |-> <<>>])
    IN  IF pre.allowAllOrigins THEN <<Star>>
        ELSE IF \E i \in DOMAIN pre.allowedOrigins : pre.allowedOrigins[i] = origin
        THEN origin
        ELSE <<>>

AllowedOrigin(opts, origin) ==
    LET pre == Preprocess(opts.AllowedOrigins, 1,
                          [allowAllOrigins |-> FALSE, allowedOrigins |-> <<>>,
                           wildcardOrigins |-> <<>>])
    IN  IF pre.allowAllOrigins THEN <<Star>>
        ELSE IF \E i \in DOMAIN pre.allowedOrigins : pre.allowedOrigins[i] = origin
        THEN origin
        ELSE IF \E i \in DOMAIN pre.wildcardOrigins : HasSuffix(origin, pre.wildcardOrigins[i])
        THEN origin
        ELSE <<>>

\* w.Header().Set(key, value) when cond, on the writer x.
SetIf(x, cond, key, value) == IF cond THEN [x EXCEPT !.hdr[key] = value] ELSE x

\* The preflight branch, cors.go lines 71-97: the headers, then 204.
Preflight(x, opts, request, allowedOrigin) ==
    LET x1 == SetIf(x, TRUE, "AllowOrigin", allowedOrigin)
        x2 == SetIf(x1, opts.AllowCredentials, "AllowCredentials", <<"true">>)
        x3 == IF Len(opts.AllowedMethods) > 0
              THEN SetIf(x2, TRUE, "AllowMethods", opts.AllowedMethods)
              ELSE SetIf(x2, request.requestMethod # <<>>, "AllowMethods", request.requestMethod)
        x4 == IF Len(opts.AllowedHeaders) > 0
              THEN SetIf(x3, TRUE, "AllowHeaders", opts.AllowedHeaders)
              ELSE SetIf(x3, request.requestHeaders # <<>>, "AllowHeaders", request.requestHeaders)
        x5 == SetIf(x4, opts.MaxAge > 0, "MaxAge", <<opts.MaxAge>>)
    IN  RealWriteHeader(x5, StatusNoContent)

\* The branch of an actual request, cors.go lines 99-106: the headers set
\* before the wrapped handler is called.
Actual(x, opts, allowedOrigin) ==
    LET x1 == SetIf(x, TRUE, "AllowOrigin", allowedOrigin)
        x2 == SetIf(x1, opts.AllowCredentials, "AllowCredentials", <<"true">>)
    IN  SetIf(x2, Len(opts.ExposedHeaders) > 0, "ExposeHeaders", opts.ExposedHeaders)

\* The handler CORS(options)(next) returns, cors.go lines 36-110, on a plain
\* writer: the writer as it is afterwards, and how often next was called.
\* next writes a body.
CORSHandler(x, opts, request) ==
    LET allowedOrigin == AllowedOrigin(opts, request.origin)
    IN  IF request.origin = <<>>
        THEN [w |-> RealWrite(x, "d"), invoked |-> 1]
        ELSE IF allowedOrigin = <<>>
        THEN [w |-> RealWriteHeader(x, StatusForbidden), invoked |-> 0]
        ELSE IF request.method = "OPTIONS"
        THEN [w |-> Preflight(x, opts, request, allowedOrigin), invoked |-> 0]
        ELSE [w |-> RealWrite(Actual(x, opts, allowedOrigin), "d"), invoked |-> 1]

\* No CORS request yet.
NoCors == [options |-> <<>>, request |-> <<>>, served |-> FALSE, invoked |-> 0]

\* The request in cors is served by the middleware, and the server completes
\* the response.
CORSServe ==
    /\ cors # NoCors
    /\ ~cors.served
    /\ fault = NoFault
    /\ LET res == CORSHandler(NewWriter, cors.options, cors.request)
       IN  /\ w' = Flush(res.w)
           /\ cors' = [cors EXCEPT !.served = TRUE, !.invoked = res.invoked]
    /\ pc' = "done"
    /\ UNCHANGED <<handleStatus, req, delegateLog, overrideLog>>
    /\ UNCHANGED treeVars
    /\ UNCHANGED docVars
    /\ UNCHANGED extVars
    /\ UNCHANGED <<mu, acc, statusLog>>

(* --------------------- the Content-Length middleware ------------------ *)

\* The panic of WriteHeader of a net/http writer for a code below 100.
InvalidStatusCode == "invalid WriteHeader code"

\* clw := &contentLengthWriter{ResponseWriter: w, buffer: &bytes.Buffer{}},
\* contentlength.go lines 13-16 and 35-40; x is the writer it wraps.
NewContentLengthWriter(x) == [x |-> x, buffer |-> <<>>, statusCode |-> 0, wroteHeader |-> FALSE]

\* contentLengthWriter.WriteHeader, contentlength.go lines 42-48: the first
\* call is recorded and forwarded at once.
CLWriteHeader(clw, statusCode) ==
    IF ~clw.wroteHeader
    THEN [clw EXCEPT !.statusCode = statusCode,
                     !.wroteHeader = TRUE,
                     !.x = RealWriteHeader(clw.x, statusCode)]
    ELSE clw

\* contentLengthWriter.Write, contentlength.go lines 50-52: into the buffer.
CLWrite(clw, data) == [clw EXCEPT !.buffer = clw.buffer \o data]

\* A call of the wrapped handler on clw; Header() is the wrapped writer's.
CLApply(clw, call) ==
    IF call[1] = "Header" THEN [clw EXCEPT !.x.hdr[call[2]] = call[3]]
    ELSE IF call[1] = "WriteHeader" THEN CLWriteHeader(clw, call[2])
    ELSE CLWrite(clw, call[2])

RECURSIVE CLRun(_, _)
CLRun(clw, calls) ==
    IF calls = <<>> THEN clw ELSE CLRun(CLApply(clw, Head(calls)), Tail(calls))

\* strconv.Itoa(contentLength) as a header value.
Itoa(n) == <<n>>

\* Whether the middleware forwards the status itself after next has returned.
CLForwards(clw) == ~clw.wroteHeader

\* The handler ContentLengthMiddleware(next) returns, contentlength.go lines
\* 11-32, next making the calls given: Content-Length is set in the header
\* map when it is not there, the status is forwarded if next did not call
\* WriteHeader (clw.statusCode is then 0, and WriteHeader of the wrapped
\* writer panics), and the buffer is written to the wrapped writer.
ContentLengthServe(calls) ==
    /\ pc \in {"idle", "done"}
    /\ fault = NoFault
    /\ pc' = "done"
    /\ delegateLog' = calls
    /\ LET clw == CLRun(NewContentLengthWriter(NewWriter), calls)
           withLength == IF clw.x.hdr.ContentLength = <<>>
                         THEN [clw EXCEPT !.x.hdr.ContentLength = Itoa(Len(clw.buffer))]
                         ELSE clw
       IN  IF CLForwards(withLength) /\ withLength.statusCode < 100
           THEN /\ fault' = InvalidStatusCode
                /\ w' = withLength.x
           ELSE /\ fault' = NoFault
                /\ w' = RealWrite(CLWriteHeader(withLength, withLength.statusCode).x,
                                  withLength.buffer)
    /\ UNCHANGED <<handleStatus, req, overrideLog>>
    /\ UNCHANGED treeVars
    /\ UNCHANGED docVars
    /\ UNCHANGED <<schemas, servers, threads, onceM, synthRuns>>
    /\ UNCHANGED mwVars

(* ------------------- concurrent calls of ServeHTTP ------------------- *)

\* A request arrives while others are being served: one more call of ServeHTTP.
Arrive ==
    /\ Len(threads) < MaxRequests
    /\ threads' = Append(threads, "start")
    /\ UNCHANGED <<schemas, servers, fault, onceM, synthRuns>>
    /\ UNCHANGED treeVars
    /\ UNCHANGED reqVars
    /\ UNCHANGED docVars
    /\ UNCHANGED mwVars

\* if r.openapiDocs { r.once.Do(...) }: with documentation off the call goes
\* on; Once.Do goes on when it reads that it is done, and else to its slow path.
OnceDoneAssumed == TRUE

OnceDone == once

OnceDo(t) ==
    /\ threads[t] = "start"
    /\ threads' = [threads EXCEPT ![t] = IF ~nodes[1].openapiDocs THEN "off"
                                          ELSE IF OnceDone THEN "past" ELSE "slow"]
    /\ UNCHANGED <<schemas, servers, fault, onceM, synthRuns>>
    /\ UNCHANGED treeVars
    /\ UNCHANGED reqVars
    /\ UNCHANGED docVars
    /\ UNCHANGED mwVars

\* The slow path of Once.Do takes the mutex of the Once.
OnceLock(t) ==
    /\ threads[t] = "slow"
    /\ onceM = 0
    /\ onceM' = t
    /\ threads' = [threads EXCEPT ![t] = "locked"]
    /\ UNCHANGED <<schemas, servers, fault, synthRuns>>
    /\ UNCHANGED treeVars
    /\ UNCHANGED reqVars
    /\ UNCHANGED docVars
    /\ UNCHANGED mwVars

\* Under the mutex Once.Do reads again whether it is done.
OnceNoRecheck == TRUE

OnceRecheck == ~once

\* Under the mutex: the body given to r.once.Do runs unless the Once is done.
OnceRun(t) ==
    /\ threads[t] = "locked"
    /\ IF OnceRecheck
       THEN /\ options' = RegisterOptionsHandlers(options, paths, DOMAIN paths)
            /\ synthesized' = routes
            /\ synthRuns' = synthRuns + 1
            /\ threads' = [threads EXCEPT ![t] = "ran"]
       ELSE /\ threads' = [threads EXCEPT ![t] = "skipped"]
            /\ UNCHANGED <<options, synthesized, synthRuns>>
    /\ UNCHANGED <<paths, once>>
    /\ UNCHANGED <<schemas, servers, fault, onceM>>
    /\ UNCHANGED treeVars
    /\ UNCHANGED reqVars
    /\ UNCHANGED mwVars

\* Once.Do returns: the Once is done when the body has run, the mutex is free.
OnceUnlock(t) ==
    /\ threads[t] \in {"ran", "skipped"}
    /\ once' = TRUE
    /\ onceM' = 0
    /\ threads' = [threads EXCEPT ![t] = "past"]
    /\ UNCHANGED <<paths, options, synthesized>>
    /\ UNCHANGED <<schemas, servers, fault, synthRuns>>
    /\ UNCHANGED treeVars
    /\ UNCHANGED reqVars
    /\ UNCHANGED mwVars

\* The call goes on to r.mux.ServeHTTP(interceptor, req), with r.once.Do
\* behind it or documentation off.
Dispatch(t) ==
    /\ threads[t] \in {"past", "off"}
    /\ threads' = [threads EXCEPT ![t] = "dispatched"]
    /\ UNCHANGED <<schemas, servers, fault, onceM, synthRuns>>
    /\ UNCHANGED treeVars
    /\ UNCHANGED reqVars
    /\ UNCHANGED docVars
    /\ UNCHANGED mwVars

(* ------------------------- the root's RWMutex ------------------------ *)

\* What a goroutine does to the shared state of the root, as sections in
\* order: the lock of rootRouter.mu the section is in ("W" for Lock, "R" for
\* RLock, "none") and the fields read ("r") or written ("w") in it.

\* handle with documentation on and a declaration, part_005 lines 242-341:
\* registerRoute and registerDocs, each under Lock.
RegisterSections ==
    << [lock |-> "W", fields |-> {<<"mux", "w">>}],
       [lock |-> "W", fields |-> {<<"patternMap", "w">>, <<"paths", "w">>, <<"schemas", "w">>}] >>

\* HandleStatus, part_005 lines 137-139: no lock.
HandleStatusSections ==
    << [lock |-> "none", fields |-> {<<"handleStatus", "w">>}] >>

\* AddServerEndpoint, part_005 lines 85-90: no lock.
AddServerEndpointSections ==
    << [lock |-> "none", fields |-> {<<"servers", "w">>}] >>

\* ServeHTTP of the first request with documentation on, part_005 lines
\* 189-240: the range over r.openapi.Paths (no lock) around
\* registerOptionsHandler (Lock, lines 386-412); the range over r.handleStatus
\* (no lock); the dispatch; getMethodsForPattern (RLock, lines 359-384) and
\* the lookup in r.handleStatus (no lock).
ServeSections ==
    << [lock |-> "none", fields |-> {<<"paths", "r">>}],
       [lock |-> "W", fields |-> {<<"patternMap", "r">>, <<"paths", "r">>, <<"mux", "w">>}],
       [lock |-> "none", fields |-> {<<"paths", "r">>}],
       [lock |-> "none", fields |-> {<<"handleStatus", "r">>}],
       [lock |-> "R", fields |-> {<<"paths", "r">>}],
       [lock |-> "none", fields |-> {<<"handleStatus", "r">>}] >>

\* OpenAPI, part_005 lines 591-595, and the reading of the document it
\* returns: the root's own *OpenAPI, no lock and no copy.
SnapshotSections ==
    << [lock |-> "none", fields |-> {<<"paths", "r">>, <<"schemas", "r">>, <<"servers", "r">>}] >>

Operations ==
    {RegisterSections, HandleStatusSections, AddServerEndpointSections,
     ServeSections, SnapshotSections}

\* A goroutine starts an operation.
Go(op) ==
    /\ Len(acc) < MaxRequests
    /\ acc' = Append(acc, [op |-> op, at |-> 1, in |-> FALSE])
    /\ UNCHANGED <<cors, mu, statusLog>>
    /\ UNCHANGED treeVars
    /\ UNCHANGED reqVars
    /\ UNCHANGED docVars
    /\ UNCHANGED extVars

\* sync.RWMutex: Lock waits for the writer and the readers to be gone, RLock
\* for the writer.
CanLock(lock) ==
    IF lock = "W" THEN mu.writer = 0 /\ mu.readers = {}
    ELSE IF lock = "R" THEN mu.writer = 0
    ELSE TRUE

\* Goroutine g enters its next section, taking the lock of it.
Enter(g) ==
    /\ g \in DOMAIN acc
    /\ ~acc[g].in
    /\ acc[g].at <= Len(acc[g].op)
    /\ LET lock == acc[g].op[acc[g].at].lock
       IN  /\ CanLock(lock)
           /\ mu' = IF lock = "W" THEN [mu EXCEPT !.writer = g]
                    ELSE IF lock = "R" THEN [mu EXCEPT !.readers = @ \cup {g}]
                    ELSE mu
    /\ acc' = [acc EXCEPT ![g].in = TRUE]
    /\ UNCHANGED <<cors, statusLog>>
    /\ UNCHANGED treeVars
    /\ UNCHANGED reqVars
    /\ UNCHANGED docVars
    /\ UNCHANGED extVars

\* A section that ends without Unlock.
UnlockMissing(g) == mu

\* defer rootRouter.mu.Unlock() and defer rootRouter.mu.RUnlock(): the lock
\* without goroutine g.
Unlock(g) ==
    [writer |-> IF mu.writer = g THEN 0 ELSE mu.writer, readers |-> mu.readers \ {g}]

\* Goroutine g leaves its section: the deferred Unlock or RUnlock.
Leave(g) ==
    /\ g \in DOMAIN acc
    /\ acc[g].in
    /\ mu' = Unlock(g)
    /\ acc' = [acc EXCEPT ![g].in = FALSE, ![g].at = @ + 1]
    /\ UNCHANGED <<cors, statusLog>>
    /\ UNCHANGED treeVars
    /\ UNCHANGED reqVars
    /\ UNCHANGED docVars
    /\ UNCHANGED extVars

\* No request served yet.
NoRoute == [method |-> "", pattern |-> <<>>, finalHandler |-> <<>>, node |-> 0,
            own |-> <<>>, seen |-> 0]

InitRouter ==
    /\ nodes = << [basePath |-> <<>>, parent |-> 0, middlewares |-> NilSlice,
                    openapiDocs |-> FALSE, redirectTrailingSlash |-> TRUE] >>
    /\ heap = <<>>
    /\ routes = {}
    /\ useLog = <<>>
    /\ groupLog = << [sub |-> <<>>, seen |-> 0] >>
    /\ trace = [route |-> NoRoute, calls |-> <<>>]
    /\ handleStatus = [c \in {} |-> NilHandler]
    /\ pc = "idle"
    /\ req = [method |-> "", path |-> <<>>]
    /\ w = NewWriter
    /\ delegateLog = <<>>
    /\ overrideLog = NoOverride
    /\ paths = [k \in {} |-> EmptyPathItem]
    /\ options = [k \in {} |-> <<>>]
    /\ once = FALSE
    /\ synthesized = {}
    /\ schemas = NoComponents
    /\ servers = <<>>
    /\ fault = NoFault
    /\ threads = <<>>
    /\ onceM = 0
    /\ synthRuns = 0
    /\ mu = [writer |-> 0, readers |-> {}]
    /\ acc = <<>>
    /\ statusLog = <<>>

\* New, and no request served by a CORS middleware.
Init ==
    /\ InitRouter
    /\ cors = NoCors

\* Registration of routes through nested groups, with every kind of sub-path
\* and pattern. Use neither reads nor writes a base path and is left to SpecMw.
Next ==
    \/ \E p \in NodeIds, sub \in SubPaths : Group(p, sub)
    \/ \E n \in NodeIds, pat \in Patterns : Handle(n, "GET", pat, NoDocs)
    \/ \E r \in routes : ServeRoute(r)

Spec == Init /\ [][Next]_vars

\* Groups, Use calls and registrations in every order, all groups under the
\* same sub-path and all routes with the same pattern.
NextMw ==
    \/ \E p \in NodeIds : Group(p, <<Slash, "a">>)
    \/ \E n \in NodeIds : Use(n)
    \/ \E n \in NodeIds, m \in TreeMethods : Handle(n, m, <<Slash, "x">>, NoDocs)
    \/ \E r \in routes : ServeRoute(r)

SpecMw == Init /\ [][NextMw]_vars

\* Requests served one after the other by a router with any table of override
\* handlers, the delegated dispatch making any calls on the interceptor.
NextIntercept ==
    \/ \E c \in Codes, h \in Handlers \cup {NilHandler} : HandleStatus(c, h)
    \/ StartRequest
    \/ DelegateSetSentinel
    \/ \E c \in Codes : DelegateWriteHeader(c)
    \/ DelegateWrite
    \/ DispatchReturn

SpecIntercept == Init /\ [][NextIntercept]_vars

\* What is registered on the root and asked of it where the path table matters.
DocPatterns == {<<Slash, "x">>, <<Slash, "y">>}

DocMethods == {"GET", "HEAD", "POST"}

DocsDecls == {NoDocs, PlainDoc}

ReqMethods == {"GET", "DELETE", "OPTIONS"}

ReqPaths == {<<Slash, "x">>, <<Slash, "z">>, <<Slash, "x", Slash>>}

\* Documentation switched on and off, routes registered on the root with and
\* without a declaration, handlers set for 404 and 405, and requests served.
NextDocs ==
    \/ \E use \in BOOLEAN : UseOpenapiDocs(1, use)
    \/ \E m \in DocMethods, pat \in DocPatterns, d \in DocsDecls : Handle(1, m, pat, d)
    \/ \E c \in {StatusNotFound, StatusMethodNotAllowed} : HandleStatus(c, "error")
    \/ \E m \in ReqMethods, path \in ReqPaths : ServeHTTP(m, path)

SpecDocs == Init /\ [][NextDocs]_vars

\* Paths with and without a final slash, with a placeholder and with the
\* segment the placeholder names, the root and the segment "root".
IdPatterns ==
    {<<Slash>>, <<Slash, "root">>, <<Slash, "x">>, <<Slash, "x", Slash>>,
     <<Slash, "{x}">>, <<Slash, "x", Slash, "y">>, <<Slash, "x", Slash, "{y}">>}

\* Documented routes of such paths registered on the root.
NextId ==
    \/ \E use \in BOOLEAN : UseOpenapiDocs(1, use)
    \/ \E m \in TreeMethods, pat \in IdPatterns, d \in DocsDecls : Handle(1, m, pat, d)

SpecId == Init /\ [][NextId]_vars

\* Requests that arrive together at a router with documented routes.
NextOnce ==
    \/ UseOpenapiDocs(1, TRUE)
    \/ \E m \in DocMethods, pat \in DocPatterns : Handle(1, m, pat, PlainDoc)
    \/ Arrive
    \/ \E t \in DOMAIN threads : OnceDo(t)
    \/ \E t \in DOMAIN threads : OnceLock(t)
    \/ \E t \in DOMAIN threads : OnceRun(t)
    \/ \E t \in DOMAIN threads : OnceUnlock(t)
    \/ \E t \in DOMAIN threads : Dispatch(t)

SpecOnce == Init /\ [][NextOnce]_vars

\* Origins: none, "https://e", "https://a.e", "https://b.e", "https://b",
\* "https://ae" (s is the scheme).
Origins ==
    {<<>>, <<"s", "e">>, <<"s", "a", Dot, "e">>, <<"s", "b", Dot, "e">>,
     <<"s", "b">>, <<"s", "a", "e">>}

\* Entries of AllowedOrigins: "*", "*.e", "https://e", "https://a.e".
OriginEntries ==
    {<<Star>>, <<Star, Dot, "e">>, <<"s", "e">>, <<"s", "a", Dot, "e">>}

OriginLists == UNION {[1..n -> OriginEntries] : n \in 0..MaxOrigins}

CORSOptions ==
    [AllowedOrigins : OriginLists,
     AllowedMethods : {<<>>, <<"GET", "POST">>},
     AllowedHeaders : {<<>>, <<"Content-Type">>},
     ExposedHeaders : {<<"X-Custom-Header">>},
     AllowCredentials : BOOLEAN,
     MaxAge : {0, 3600}]

CORSRequests ==
    [method : {"GET", "OPTIONS"},
     origin : Origins,
     requestMethod : {<<>>, <<"PUT">>},
     requestHeaders : {<<>>, <<"X-Other">>}]

\* A CORS middleware with any options around a handler, and a request for it.
InitCORS ==
    /\ InitRouter
    /\ \E o \in CORSOptions, r \in CORSRequests :
          cors = [options |-> o, request |-> r, served |-> FALSE, invoked |-> 0]

NextCORS == CORSServe

SpecCORS == InitCORS /\ [][NextCORS]_vars

\* What a handler under ContentLengthMiddleware may do: set Content-Length,
\* call WriteHeader, write one byte or two.
CLCalls ==
    {<<"Header", "ContentLength", Itoa(7)>>,
     <<"WriteHeader", StatusOK>>, <<"WriteHeader", StatusNotFound>>,
     <<"Write", <<"a">>>>, <<"Write", <<"b", "c">>>>}

CLCallSeqs == UNION {[1..n -> CLCalls] : n \in 0..MaxCalls}

\* Requests served by ContentLengthMiddleware around handlers making any calls.
NextContentLength == \E calls \in CLCallSeqs : ContentLengthServe(calls)

SpecContentLength == Init /\ [][NextContentLength]_vars

\* Groups, status handlers set through every node, a route, and requests that
\* hit it, miss it or use another method.
NextShared ==
    \/ \E p \in NodeIds : Group(p, <<Slash, "a">>)
    \/ \E n \in NodeIds, code \in {StatusNotFound, StatusMethodNotAllowed}, h \in Handlers :
          HandleStatusOn(n, code, h)
    \/ \E n \in NodeIds, h \in Handlers : NotFound(n, h)
    \/ \E n \in NodeIds, h \in Handlers : MethodNotAllowed(n, h)
    \/ Handle(1, "GET", <<Slash, "x">>, NoDocs)
    \/ \E method \in {"GET", "POST"}, path \in {<<Slash, "x">>, <<Slash, "y">>} :
          ServeHTTP(method, path)

SpecShared == Init /\ [][NextShared]_vars

\* Documented routes registered once and again, and requests.
NextConflict ==
    \/ \E use \in BOOLEAN : UseOpenapiDocs(1, use)
    \/ \E m \in DocMethods, pat \in DocPatterns, d \in DocsDecls : Handle(1, m, pat, d)
    \/ \E m \in DocMethods, pat \in DocPatterns, d \in DocsDecls : HandleConflict(1, m, pat, d)
    \/ \E path \in DocPatterns : ServeHTTP("GET", path)

SpecConflict == Init /\ [][NextConflict]_vars

\* Goroutines that register, set status handlers and server endpoints, serve
\* and take the document, interleaved in every way.
NextLock ==
    \/ \E op \in Operations : Go(op)
    \/ \E g \in DOMAIN acc : Enter(g)
    \/ \E g \in DOMAIN acc : Leave(g)

SpecLock == Init /\ [][NextLock]_vars

\* The same where a goroutine that can go on does: the scheduler runs every
\* goroutine that is not blocked, and Lock and RLock return once the lock is
\* free for them.
SpecLockFair ==
    /\ Init
    /\ [][NextLock]_vars
    /\ \A g \in 1..MaxRequests : WF_vars(Enter(g)) /\ WF_vars(Leave(g))

\* Groups and registrations from every node, of patterns that are or are not
\* bound already, and requests for the bound routes.
NextTwice ==
    \/ \E p \in NodeIds, sub \in SubPaths : Group(p, sub)
    \/ \E n \in NodeIds, m \in TreeMethods, pat \in Patterns : Handle(n, m, pat, NoDocs)
    \/ \E n \in NodeIds, m \in TreeMethods, pat \in Patterns : HandleTwice(n, m, pat, NoDocs)
    \/ \E r \in routes : ServeRoute(r)

SpecTwice == Init /\ [][NextTwice]_vars

\* Groups, and every registration operation called on every node.
NextChild ==
    \/ \E p \in NodeIds : Group(p, <<Slash, "a">>)
    \/ \E n \in NodeIds : Handle(n, "GET", <<Slash, "x">>, NoDocs)
    \/ \E n \in NodeIds : ServeFile(n, <<Slash, "f">>)
    \/ \E n \in NodeIds : ServeFiles(n, <<Slash, "s">>)
    \/ \E n \in NodeIds : HandleStatusOn(n, StatusNotFound, "error")
    \/ \E n \in NodeIds : AddServerEndpoint(n, "u")

SpecChild == Init /\ [][NextChild]_vars

\* Request paths with and without a final slash, clean and not:
\* "/", "/x", "/x/", "/x//y/", "//x/".
RedirectPaths ==
    {<<Slash>>, <<Slash, "x">>, <<Slash, "x", Slash>>,
     <<Slash, "x", Slash, Slash, "y", Slash>>, <<Slash, Slash, "x", Slash>>}

\* The redirection of trailing slashes switched on and off, routes, a handler
\* for 404, and requests for those paths.
NextRedirect ==
    \/ \E b \in BOOLEAN : RedirectTrailingSlash(1, b)
    \/ \E m \in TreeMethods, pat \in DocPatterns : Handle(1, m, pat, NoDocs)
    \/ HandleStatus(StatusNotFound, "error")
    \/ \E m \in TreeMethods, p \in RedirectPaths : ServeHTTP(m, p)

SpecRedirect == Init /\ [][NextRedirect]_vars

\* The same with the empty path among the paths, and documentation.
NextEmpty ==
    \/ \E b \in BOOLEAN : RedirectTrailingSlash(1, b)
    \/ UseOpenapiDocs(1, TRUE)
    \/ \E m \in TreeMethods, pat \in DocPatterns : Handle(1, m, pat, PlainDoc)
    \/ \E m \in TreeMethods, p \in RedirectPaths \cup {<<>>} : ServeHTTP(m, p)
    \/ \E m \in TreeMethods, p \in RedirectPaths \cup {<<>>} : ServeHTTPPanics(m, p)

SpecEmpty == Init /\ [][NextEmpty]_vars

\* Requests for routes whose handlers write, set the sentinel header, return
\* or panic, with and without Recover around them, and handlers for 404 and 500.
NextRecover ==
    \/ \E c \in {StatusNotFound, StatusInternalServerError}, h \in Handlers \cup {NilHandler} :
          HandleStatus(c, h)
    \/ StartRequest
    \/ DelegateSetSentinel
    \/ DelegateWrite
    \/ \E recover \in BOOLEAN : HandlerPanics(recover)
    \/ DispatchReturn

SpecRecover == Init /\ [][NextRecover]_vars

\* Declarations with sample values of every kind, for response or request
\* body, the struct types A (in two versions with different fields) and B.
\* type A struct { ID int `json:"id"`; Name string; Tags []string `json:"-"` }
\* and, in another package, type A struct { Name string }.
TaggedFields ==
    << [name |-> "ID", tag |-> "id", kind |-> "int"],
       [name |-> "Name", tag |-> "", kind |-> "string"],
       [name |-> "Tags", tag |-> "-", kind |-> "slice"] >>

StringFields == << [name |-> "Name", tag |-> "", kind |-> "string"] >>

Samples ==
    {[kind |-> k, name |-> "A", shape |-> v] :
        k \in {"struct", "slice"}, v \in {TaggedFields, StringFields}}
        \cup {[kind |-> "ptr", name |-> "B", shape |-> TaggedFields],
              [kind |-> "prim", name |-> "", shape |-> NoFields],
              [kind |-> "slicePrim", name |-> "", shape |-> NoFields],
              [kind |-> "nil", name |-> "", shape |-> NoFields]}

SchemaDecls ==
    {[given |-> TRUE, summary |-> "out", out |-> x, in |-> NoSample] : x \in Samples}
        \cup {[given |-> TRUE, summary |-> "in", out |-> NoSample, in |-> x] : x \in Samples}
        \cup {[given |-> TRUE, summary |-> "both", out |-> x, in |-> y] :
                 x \in {y \in Samples : y.kind = "struct"}, y \in Samples}

\* "/x/" and "/x/{$}": two patterns the mux takes as different, documented
\* under the same path.
SchemaPatterns == {<<Slash, "x", Slash>>, <<Slash, "x", Slash, "{$}">>}

\* Routes registered on the root with such declarations, documentation
\* switched on and off.
NextSchema ==
    \/ \E use \in BOOLEAN : UseOpenapiDocs(1, use)
    \/ \E m \in TreeMethods, pat \in SchemaPatterns, d \in SchemaDecls \cup {NoDocs} :
          Handle(1, m, pat, d)

SpecSchema == Init /\ [][NextSchema]_vars

\* Samples of struct types, as values, slices and pointers.
StructSamples == {x \in Samples : x.kind \in {"struct", "slice", "ptr"}}

Orders == {<<1, 2>>, <<2, 1>>}

\* Routes registered on the root with declarations of one response or two.
NextOuts ==
    \/ UseOpenapiDocs(1, TRUE)
    \/ \E m \in TreeMethods, pat \in SchemaPatterns, x \in StructSamples :
          Handle(1, m, pat, [given |-> TRUE, summary |-> "out", out |-> x, in |-> NoSample])
    \/ \E m \in TreeMethods, pat \in SchemaPatterns, x, y \in StructSamples, order \in Orders :
          HandleOuts(m, pat, <<x, y>>, order)

SpecOuts == Init /\ [][NextOuts]_vars

(* ------------------------------ claims -------------------------------- *)

\* The sub-paths of the Group calls from the root down to node n, concatenated.
RECURSIVE SubPathsTo(_)
SubPathsTo(n) ==
    IF nodes[n].parent = 0 THEN <<>>
    ELSE SubPathsTo(nodes[n].parent) \o groupLog[n].sub

\* C1: at every nesting depth, a route is bound in the root's multiplexer under
\* the sub-paths of its ancestors from root to leaf, followed by its own
\* pattern, with "" turned into "/" and a missing leading "/" added.
C1_EffectivePath ==
    \A r \in routes :
        LET cat == SubPathsTo(r.node) \o r.own
        IN  /\ cat = <<>> => r.pattern = <<Slash>>
            /\ (cat # <<>> /\ cat[1] = Slash) => r.pattern = cat
            /\ (cat # <<>> /\ cat[1] # Slash) => r.pattern = <<Slash>> \o cat

\* C1 witness: a route registered two groups deep, whose concatenation needed
\* the leading "/".
C1_Witness ==
    \E r \in routes :
        /\ nodes[r.node].parent > 1
        /\ SubPathsTo(r.node) \o r.own # <<>>
        /\ (SubPathsTo(r.node) \o r.own)[1] # Slash

\* Strict ancestry in the tree of groups.
RECURSIVE IsAncestor(_, _)
IsAncestor(a, n) ==
    /\ nodes[n].parent # 0
    /\ (nodes[n].parent = a \/ IsAncestor(a, nodes[n].parent))

\* The child of a on the way down to its descendant n.
RECURSIVE ChildToward(_, _)
ChildToward(a, n) ==
    IF nodes[n].parent = a THEN n ELSE ChildToward(a, nodes[n].parent)

Served == trace.calls # <<>>

\* Positions in the last request's calls.
PosOf(kind, m) == CHOOSE i \in 1..Len(trace.calls) : trace.calls[i] = <<kind, m>>

Wrapping == {trace.calls[i][2] : i \in {j \in 1..Len(trace.calls) : trace.calls[j][1] = "in"}}

Outside(m1, m2) ==
    /\ PosOf("in", m1) < PosOf("in", m2)
    /\ PosOf("out", m2) < PosOf("out", m1)

\* C2: on every request, a middleware added on an ancestor runs outside one
\* added on a descendant, among those of one node the earlier added runs
\* outside the later added, and the handler runs innermost, once.
C2_MiddlewareOrder ==
    Served =>
        /\ \A m1, m2 \in Wrapping :
              (\/ IsAncestor(useLog[m1], useLog[m2])
               \/ (useLog[m1] = useLog[m2] /\ m1 < m2)) => Outside(m1, m2)
        /\ \A m \in Wrapping :
              /\ PosOf("in", m) < PosOf("handler", 0)
              /\ PosOf("handler", 0) < PosOf("out", m)
        /\ Cardinality({i \in 1..Len(trace.calls) : trace.calls[i][1] = "handler"}) = 1
        /\ Len(trace.calls) = 2 * Cardinality(Wrapping) + 1

\* C2 witness: a request ran through a middleware of an ancestor and two
\* middlewares the registering node added itself.
C2_Witness ==
    /\ Served
    /\ \E m1, m2, m3 \in Wrapping :
          /\ IsAncestor(useLog[m1], trace.route.node)
          /\ useLog[m2] = trace.route.node
          /\ useLog[m3] = trace.route.node
          /\ m2 < m3

\* C3, the routes: a middleware an ancestor added after the group towards the
\* registering node was created never runs for a route of that node.
C3_LaterParentUseNotInherited ==
    Served =>
        \A m \in Wrapping :
            IsAncestor(useLog[m], trace.route.node) =>
                m <= groupLog[ChildToward(useLog[m], trace.route.node)].seen

\* C3, the lists: a Use call on one node leaves the middleware list of every
\* other node (parent, child, sibling) as it was.
C3_UseTouchesOwnListOnly ==
    \A n \in NodeIds :
        (Len(useLog') = Len(useLog) + 1 /\ useLog'[Len(useLog')] # n)
            => MwList(n)' = MwList(n)

\* C3: after Group has created a child, the middleware lists of parent and
\* child are independent of each other and of the siblings'.
C3_Independent == []C3_LaterParentUseNotInherited /\ [][C3_UseTouchesOwnListOnly]_vars

\* C3 witness: a request ran through a route of a child that has a sibling,
\* after the parent called Use once the child existed and the child called Use.
C3_Witness ==
    /\ Served
    /\ trace.route.node # 1
    /\ \E m \in 1..Len(useLog) :
          /\ useLog[m] = nodes[trace.route.node].parent
          /\ m > groupLog[trace.route.node].seen
    /\ \E m \in 1..Len(useLog) : useLog[m] = trace.route.node
    /\ \E k \in NodeIds :
          k # trace.route.node /\ nodes[k].parent = nodes[trace.route.node].parent

\* C4: the middlewares of the registering node that run for a route are those
\* added before the route was registered: a later Use does not wrap the route,
\* an earlier one always does.
C4_FixedAtRegistration ==
    Served =>
        \A m \in 1..Len(useLog) :
            useLog[m] = trace.route.node => (m \in Wrapping <=> m <= trace.route.seen)

\* C4 witness: a request ran through a route whose node called Use both
\* before and after the registration.
C4_Witness ==
    /\ Served
    /\ \E m1, m2 \in 1..Len(useLog) :
          /\ useLog[m1] = trace.route.node
          /\ useLog[m2] = trace.route.node
          /\ m1 <= trace.route.seen
          /\ m2 > trace.route.seen

(* ------------------ claims about status interception ------------------ *)

\* The output calls of the delegated dispatch, in order: what a writer that
\* forwards everything would receive.
RECURSIVE Outputs(_)
Outputs(log) ==
    IF log = <<>> THEN <<>>
    ELSE IF log[1][1] = "Header" THEN Outputs(Tail(log))
    ELSE << <<log[1][1], log[1][2]>> >> \o Outputs(Tail(log))

\* The status line a sequence of output calls produces on a plain writer.
StatusOf(out) ==
    IF out # <<>> /\ out[1][1] = "WriteHeader" THEN out[1][2] ELSE StatusOK

\* The body a sequence of output calls produces on a plain writer.
RECURSIVE BodyOf(_)
BodyOf(out) ==
    IF out = <<>> THEN <<>>
    ELSE IF out[1][1] = "Write" THEN <<out[1][2]>> \o BodyOf(Tail(out))
    ELSE BodyOf(Tail(out))

\* Whether an override handler is registered for a status code.
HasHandler(code) == code \in DOMAIN handleStatus /\ handleStatus[code] \in Handlers

WriteHeaderCalls == {i \in DOMAIN delegateLog : delegateLog[i][1] = "WriteHeader"}

\* The first output of the delegated dispatch is WriteHeader(code), made with
\* the sentinel header not set, and code has an override handler.
EmitsOverridden(code) ==
    /\ HasHandler(code)
    /\ Outputs(delegateLog) # <<>>
    /\ Outputs(delegateLog)[1] = <<"WriteHeader", code>>
    /\ \E i \in WriteHeaderCalls :
          /\ delegateLog[i] = <<"WriteHeader", code, "">>
          /\ \A j \in WriteHeaderCalls : i <= j

PassedThrough ==
    /\ ~w.intercepted
    /\ overrideLog.ran = <<>>
    /\ w.calls = Outputs(delegateLog)
    /\ w.body = BodyOf(Outputs(delegateLog))
    /\ w.wroteHeader => w.status = StatusOf(Outputs(delegateLog))
    /\ Outputs(delegateLog) # <<>> => w.wroteHeader

C9_SentinelNeverSent == w.wroteHeader => w.sentHdr.Sentinel = ""

(* ------------- claims about the Allow header and OPTIONS -------------- *)

\* The methods of the routes bound on a path.
RegisteredMethods(rts, path) == {r.method : r \in {x \in rts : x.pattern = path}}

SeqSet(seq) == {seq[i] : i \in DOMAIN seq}

\* A request for a path that has routes, none of them for the method of the
\* request, and that no synthesized OPTIONS handler answers.
MethodNotRegistered(method, path) ==
    /\ ~TrailingSlash(path)
    /\ RegisteredMethods(routes, path) # {}
    /\ ~MuxServes(MuxMethods(routes, options', path), method)

\* C7: with a handler for 405 registered, a request for a path that has routes
\* but none for its method has the handler called, and the Allow header the
\* handler sees lists the methods registered on the path, documented or not
\* (HEAD, which a GET route serves, and the synthesized OPTIONS are let pass).
C7_AllowIsRegisteredSet ==
    [][\A m \in ReqMethods, p \in ReqPaths :
          (ServeHTTP(m, p) /\ HasHandler(StatusMethodNotAllowed) /\ MethodNotRegistered(m, p))
              => /\ overrideLog'.ran = <<StatusMethodNotAllowed>>
                 /\ RegisteredMethods(routes, p) \subseteq SeqSet(overrideLog'.allow)
                 /\ SeqSet(overrideLog'.allow) \subseteq
                        RegisteredMethods(routes, p) \cup {"HEAD", "OPTIONS"}]_vars

\* C10: the answer of the OPTIONS handler synthesized for a path has an empty
\* body and an Allow header that lists the methods registered on the path
\* when the handlers were synthesized and OPTIONS, each once.
C10_OptionsAllow ==
    [][\A p \in ReqPaths :
          (ServeHTTP("OPTIONS", p) /\ ~TrailingSlash(p) /\ p \in DOMAIN options')
              => /\ w'.status = StatusNoContent
                 /\ w'.body = <<>>
                 /\ SeqSet(w'.sentHdr.Allow) =
                        RegisteredMethods(synthesized', p) \cup {"OPTIONS"}
                 /\ Len(w'.sentHdr.Allow) = Cardinality(SeqSet(w'.sentHdr.Allow))]_vars

\* A call of ServeHTTP on the root.
Serves == \E m \in ReqMethods, p \in ReqPaths : ServeHTTP(m, p)

\* C11: once the first request with documentation on has been served, every
\* path of the path table has an OPTIONS handler bound in the mux.
C11_EveryPathHasOptions ==
    [][(Serves /\ SynthesisDue) => DOMAIN paths \subseteq DOMAIN options']_vars

\* C12: the OPTIONS handlers are synthesized once: after that, whatever is
\* registered or served, no handler is added and no Allow list changes.
C12_NeverRecomputed == [][once => options' = options]_vars

\* After the synthesis a method was documented on a path that has a handler,
\* and an OPTIONS request for the path was then answered with the old list.
C12_Witness ==
    /\ once
    /\ pc = "done"
    /\ req.method = "OPTIONS"
    /\ req.path \in DOMAIN options
    /\ SeqSet(Methods(paths[req.path])) \ SeqSet(options[req.path]) # {}
    /\ w.sentHdr.Allow = options[req.path]

\* C13: however many calls of ServeHTTP with documentation on run together,
\* the body given to r.once.Do runs once in all: never twice, and it has run
\* when a call is past r.once.Do.
C13_SynthesisOnce ==
    /\ synthRuns <= 1
    /\ \A t \in DOMAIN threads : threads[t] = "past" => synthRuns = 1

\* Two calls were in the slow path of Once.Do together; one ran the body and
\* the other found the Once done under the mutex.
C13_Witness ==
    /\ \E t \in DOMAIN threads : threads[t] = "past"
    /\ \E t \in DOMAIN threads : threads[t] = "skipped"
    /\ synthRuns = 1
    /\ DOMAIN options # {}

\* ---------------------------------------------------------------------------
\* The schema component store and the documented operations (SpecSchema).

\* A documented registration on the root: Handle with a declaration while
\* documentation is on.
Documents(m, pat, d) == Handle(1, m, pat, d) /\ nodes[1].openapiDocs /\ d # NoDocs

\* The samples of the declarations now held by the path table.
DocumentedSamples ==
    UNION {{paths[p][m].doc.out, paths[p][m].doc.in} : p \in DOMAIN paths,
                                                       m \in SeqSet(ItemMethods)}

\* C14: a named schema component is registered at most once: an entry of the
\* component store never changes and never leaves, whatever the samples of
\* later registrations with that name are, and a registration adds under a
\* new name only.
C14_FirstSchemaWins ==
    [][\A k \in DOMAIN schemas : k \in DOMAIN schemas' /\ schemas'[k] = schemas[k]]_vars

\* C14 happens: the store has the component of A with the fields of its first
\* version while a documented operation declares A with other fields.
C14_Witness ==
    /\ "A" \in DOMAIN schemas
    /\ \E x \in DocumentedSamples :
          /\ x.name = "A"
          /\ schemas["A"].properties \notin {OutProperties(x.shape), InProperties(x.shape)}

\* C15: a documented registration that returns, for a path and a method the
\* table already has an Operation for, leaves the Operation of this
\* registration there, and the component store keeps the entries it had.
C15_LastOperationWins ==
    [][\A m \in TreeMethods, pat \in SchemaPatterns, d \in SchemaDecls :
         (/\ Documents(m, pat, d)
          /\ fault' = NoFault
          /\ StripPattern(pat) \in DOMAIN paths
          /\ paths[StripPattern(pat)][m] # NoOperation)
         => /\ paths'[StripPattern(pat)][m].doc = d
            /\ \A k \in DOMAIN schemas : k \in DOMAIN schemas' /\ schemas'[k] = schemas[k]]_vars

\* C15 happens: two routes of one method are bound under patterns documented
\* as the same path, the Operation there is the one whose sample of A has the
\* later fields, and the store has A with the earlier ones.
C15_Witness ==
    \E r1, r2 \in routes :
      /\ r1 # r2 /\ r1.method = r2.method
      /\ StripPattern(r1.pattern) = StripPattern(r2.pattern)
      /\ StripPattern(r1.pattern) \in DOMAIN paths
      /\ "A" \in DOMAIN schemas
      /\ LET op == paths[StripPattern(r1.pattern)][r1.method]
         IN  /\ op # NoOperation
             /\ op.doc.out.name = "A"
             /\ schemas["A"].properties \notin {OutProperties(op.doc.out.shape),
                                                 InProperties(op.doc.out.shape)}
      /\ fault = NoFault

\* C16: a registration with documentation on never ends in a fault because
\* of the shape of the sample of its response or request body declaration.
C16_AnySampleShape ==
    [][\A m \in TreeMethods, pat \in SchemaPatterns, d \in SchemaDecls :
         Documents(m, pat, d) => fault' = NoFault]_vars

\* ---------------------------------------------------------------------------
\* Registering a method and path twice (SpecTwice).

\* The routes bound for method and pattern.
RoutesOf(method, pattern) == {r \in routes : r.method = method /\ r.pattern = pattern}

\* A register call from node n for a method and pattern some route has.
RegistersAgain(n, m, pat) ==
    /\ RoutesOf(m, FullPattern(nodes[n].basePath, pat)) # {}
    /\ Handle(n, m, pat, NoDocs) \/ HandleTwice(n, m, pat, NoDocs)

\* C17: a register call, from any node, for a method and normalized path
\* that are bound already ends in a fault at the call and binds nothing; no
\* method and path ever have two routes, and serving a route never is where
\* a fault appears.
C17_SecondRegistrationFails ==
    [][/\ \A n \in NodeIds, m \in TreeMethods, pat \in Patterns :
            RegistersAgain(n, m, pat) => fault' = MuxConflict /\ routes' = routes
       /\ \A r \in routes' : RoutesOf(r.method, r.pattern)' = {r}
       /\ (\E r \in routes : ServeRoute(r)) => fault' = NoFault]_vars

\* C17 happens: the second registration came from another node than the
\* route's, through a different sub-path and pattern, and ended in the fault.
C17_Witness ==
    /\ fault = MuxConflict
    /\ \E r \in routes, n \in NodeIds :
         /\ n # r.node
         /\ \E pat \in Patterns :
              /\ pat # r.own
              /\ FullPattern(nodes[n].basePath, pat) = r.pattern

\* ---------------------------------------------------------------------------
\* The registration operations on a sub-router (SpecChild).

\* A registration operation called on node n.
RegistrationOn(n) ==
    \/ Handle(n, "GET", <<Slash, "x">>, NoDocs)
    \/ ServeFile(n, <<Slash, "f">>)
    \/ ServeFiles(n, <<Slash, "s">>)
    \/ HandleStatusOn(n, StatusNotFound, "error")
    \/ AddServerEndpoint(n, "u")

\* C18: every registration operation called on a sub-router ends without a
\* fault and takes effect in the registry of the root: a route is bound, a
\* status handler is in the map, a server endpoint is in the list.
C18_ChildUsableLikeRoot ==
    [][\A n \in NodeIds :
         (nodes[n].parent # 0 /\ RegistrationOn(n))
         => /\ fault' = NoFault
            /\ \/ routes' # routes
               \/ handleStatus' # handleStatus
               \/ servers' # servers]_vars

\* ---------------------------------------------------------------------------
\* The redirection of trailing slashes (SpecRedirect).

\* The path without its final slash.
WithoutFinalSlash(path) == SubSeq(path, 1, Len(path) - 1)

\* The response of this request is a redirect to location, made by ServeHTTP
\* itself: nothing was dispatched, the interceptor saw no call and no override
\* handler ran.
RedirectedTo(location) ==
    /\ w'.status = StatusMovedPermanently
    /\ w'.sentHdr.Location = location
    /\ delegateLog' = <<>>
    /\ w'.calls = <<>>
    /\ ~w'.intercepted /\ w'.statusCode = 0
    /\ overrideLog' = NoOverride

C20_RecoverGives500 ==
    [][(HandlerPanics(TRUE) /\ delegateLog = <<>>)
       => /\ fault' = NoFault
          /\ IF HasHandler(StatusInternalServerError)
             THEN /\ overrideLog'.ran = <<StatusInternalServerError>>
                  /\ w'.calls = overrideLog'.calls
                  /\ w'.status = StatusOf(overrideLog'.calls)
                  /\ w'.body = BodyOf(overrideLog'.calls)
             ELSE /\ overrideLog'.ran = <<>>
                  /\ w'.status = StatusInternalServerError
                  /\ w'.body = <<"e">>]_vars

\* C20 happens: the panic was recovered and its 500 replaced by the response
\* of the handler registered for 500.
C20_Witness ==
    /\ pc = "done"
    /\ fault = NoFault
    /\ delegateLog = << <<"WriteHeader", StatusInternalServerError, "">>, <<"Write", "e">> >>
    /\ HasHandler(StatusInternalServerError)
    /\ overrideLog.ran = <<StatusInternalServerError>>
    /\ w.body = <<"o">>

\* ---------------------------------------------------------------------------
\* The CORS middleware (SpecCORS).

\* The origin is allowed: some entry of AllowedOrigins is "*", is the origin,
\* or is "*" followed by a suffix of the origin that starts with ".".
OriginAllowed(opts, origin) ==
    \E i \in DOMAIN opts.AllowedOrigins :
        LET o == opts.AllowedOrigins[i]
        IN  \/ o = <<Star>>
            \/ o = origin
            \/ Len(o) >= 2 /\ o[1] = Star /\ o[2] = Dot /\ HasSuffix(origin, Tail(o))

\* C21: the CORS middleware calls the wrapped handler (once) exactly when the
\* request has no Origin, or an allowed Origin and a method other than
\* OPTIONS; a request with an Origin that is not allowed gets 403 and no
\* Access-Control-Allow-Origin; a preflight with an allowed Origin gets 204
\* with the configured Access-Control-Allow-Methods and -Headers.
C21_CORSDecides ==
    cors.served =>
        LET origin == cors.request.origin
            allowed == OriginAllowed(cors.options, origin)
            preflight == cors.request.method = "OPTIONS"
        IN  /\ cors.invoked = (IF origin = <<>> \/ (allowed /\ ~preflight) THEN 1 ELSE 0)
            /\ (origin # <<>> /\ ~allowed)
               => w.status = StatusForbidden /\ w.sentHdr.AllowOrigin = <<>> /\ w.body = <<>>
            /\ (origin # <<>> /\ allowed /\ preflight)
               => /\ w.status = StatusNoContent
                  /\ w.body = <<>>
                  /\ w.sentHdr.AllowOrigin \in {origin, <<Star>>}
                  /\ cors.options.AllowedMethods # <<>>
                     => w.sentHdr.AllowMethods = cors.options.AllowedMethods
                  /\ cors.options.AllowedHeaders # <<>>
                     => w.sentHdr.AllowHeaders = cors.options.AllowedHeaders

\* C21 happens: a preflight whose Origin is allowed by a wildcard entry only
\* was answered with 204 and the configured methods.
C21_Witness ==
    /\ cors.served
    /\ cors.request.method = "OPTIONS"
    /\ cors.request.origin = <<"s", "b", Dot, "e">>
    /\ cors.options.AllowedOrigins = << <<"s", "e">>, <<Star, Dot, "e">> >>
    /\ cors.options.AllowedMethods # <<>>
    /\ w.status = StatusNoContent
    /\ w.sentHdr.AllowMethods = cors.options.AllowedMethods
    /\ cors.invoked = 0

\* ---------------------------------------------------------------------------
\* The Content-Length middleware (SpecContentLength).

\* The bytes the handler wrote, in order.
RECURSIVE BytesWritten(_)
BytesWritten(log) ==
    IF log = <<>> THEN <<>>
    ELSE IF log[1][1] = "Write" THEN log[1][2] \o BytesWritten(Tail(log))
    ELSE BytesWritten(Tail(log))

\* The bytes the wrapped writer received, in order.
RECURSIVE Flat(_)
Flat(chunks) == IF chunks = <<>> THEN <<>> ELSE Head(chunks) \o Flat(Tail(chunks))

\* The handler set Content-Length itself.
SetsContentLength(log) == \E i \in DOMAIN log : log[i][1] = "Header"

\* C22: for a response through ContentLengthMiddleware whose handler did not
\* set Content-Length, the Content-Length the client gets is the number of
\* bytes the handler wrote, and the wrapped writer has got those bytes once
\* and in order.
C22_ContentLengthIsBodyLength ==
    (pc = "done" /\ ~SetsContentLength(delegateLog))
    => /\ fault = NoFault
       /\ w.sentHdr.ContentLength = Itoa(Len(BytesWritten(delegateLog)))
       /\ Flat(w.body) = BytesWritten(delegateLog)

\* ---------------------------------------------------------------------------
\* The states of the intercept writer (SpecIntercept).

\* The interceptor of the request being dispatched has forwarded a status to
\* the writer inside it (WriteHeader, or a Write that sent the status itself).
Forwarded == pc = "dispatch" /\ w.wroteHeader /\ ~w.intercepted

\* The interceptor of the request being dispatched is intercepted.
Intercepted == pc = "dispatch" /\ w.intercepted

\* C23: forwarded is terminal for the request: from then on no call moves the
\* interceptor to intercepted, every body byte written is forwarded, and no
\* override handler is called when the dispatch returns.
C23_ForwardedIsTerminal ==
    [][Forwarded
       => /\ ~w'.intercepted
          /\ overrideLog'.ran = <<>>
          /\ DelegateWrite => w'.body = Append(w.body, "d")]_vars

\* ---------------------------------------------------------------------------
\* The override handler after the dispatch (SpecIntercept).

\* C24: when the delegated dispatch returns, an override handler is called,
\* once, exactly when the interceptor is intercepted; it is the handler of the
\* recorded status; its calls go to the writer inside the interceptor, and
\* the status and the body it emits are what the client gets from then on.
C24_OverrideOnceIffIntercepted ==
    [][DispatchReturn
       => /\ (overrideLog'.ran # <<>>) <=> w.intercepted
          /\ w.intercepted
             => /\ overrideLog'.ran = <<w.statusCode>>
                /\ overrideLog'.calls = OverrideCalls(handleStatus[w.statusCode], w.statusCode)
                /\ w'.calls = w.calls \o overrideLog'.calls
                /\ w'.status = StatusOf(overrideLog'.calls)
                /\ w'.body = w.body \o BodyOf(overrideLog'.calls)]_vars

\* ---------------------------------------------------------------------------
\* Calls on an intercepted writer (SpecIntercept).

\* C25: once the interceptor is intercepted, a WriteHeader call changes
\* nothing, the recorded status included, and a Write call forwards nothing
\* to the writer inside and returns the number of bytes it was given and no
\* error.
C25_InterceptedDiscards ==
    [][Intercepted
       => /\ \A c \in Codes : DelegateWriteHeader(c) => w' = w
          /\ DelegateWrite
             => /\ w' = w
                /\ InterceptWriteResult(w, "d") = [n |-> DataLen("d"), err |-> "nil"]]_vars

\* ---------------------------------------------------------------------------
\* Dispatch after the synthesis (SpecOnce).

\* A call of ServeHTTP has run the body of r.once.Do and Once.Do has not yet
\* marked the Once done.
InSynthesis == \E t \in DOMAIN threads : threads[t] = "ran"

\* C26: a call of ServeHTTP that went through r.once.Do (documentation on)
\* reaches r.mux.ServeHTTP only when the one run of the synthesis is over: the
\* body has run once, the Once is done, and no call is still in it.
C26_DispatchAfterSynthesis ==
    [][\A t \in DOMAIN threads :
         (threads[t] = "past" /\ Dispatch(t))
         => /\ synthRuns = 1
            /\ once
            /\ ~InSynthesis]_vars

\* C26 happens: of two calls that arrived together one has run the synthesis,
\* the other waited for it in Once.Do, and both have dispatched, with a
\* handler installed.
C26_Witness ==
    /\ Len(threads) = 2
    /\ \A t \in DOMAIN threads : threads[t] = "dispatched"
    /\ synthRuns = 1
    /\ DOMAIN options # {}

\* ---------------------------------------------------------------------------
\* The lock of the shared state (SpecLock).

\* The state of the registry the claim names.
RegistryFields == {"paths", "schemas", "handleStatus", "servers"}

\* The accesses goroutine g is making now.
Accessing(g) == IF acc[g].in THEN acc[g].op[acc[g].at].fields ELSE {}

\* Goroutine g holds the root's lock as its access a needs it.
Holds(g, a) == IF a[2] = "w" THEN mu.writer = g ELSE mu.writer = g \/ g \in mu.readers

\* C27: every access to the path table, the schema store, the status-handler
\* table and the server list is made holding the root's lock, exclusively
\* for a write and at least shared for a read, so no access to such a field
\* is concurrent with a write of it.
C27_AccessUnderLock ==
    /\ \A g \in DOMAIN acc : \A a \in Accessing(g) :
          a[1] \in RegistryFields => Holds(g, a)
    /\ \A g, h \in DOMAIN acc : \A a \in Accessing(g), b \in Accessing(h) :
          (g # h /\ a[1] = b[1] /\ a[1] \in RegistryFields) => (a[2] = "r" /\ b[2] = "r")

\* ---------------------------------------------------------------------------
\* The one status-handler table (SpecShared).

\* The calls of HandleStatus for a code, and the last of them.
StatusCallsFor(code) == {i \in DOMAIN statusLog : statusLog[i].code = code}

LastStatusCall(code) ==
    statusLog[CHOOSE i \in StatusCallsFor(code) : \A j \in StatusCallsFor(code) : j <= i]

\* The dispatch of the request wrote the status code.
DispatchWrote(code) ==
    \E i \in DOMAIN delegateLog :
        delegateLog[i][1] = "WriteHeader" /\ delegateLog[i][2] = code

\* C28: the handler registered last for a status code, through whichever node
\* of the tree, is the entry of the table the root serves with, and it is the
\* handler that answers a later request whose dispatch wrote that status.
C28_SharedStatusTable ==
    \A code \in {StatusNotFound, StatusMethodNotAllowed} :
        StatusCallsFor(code) # {} =>
            /\ code \in DOMAIN handleStatus
            /\ handleStatus[code] = LastStatusCall(code).handler
            /\ (pc = "done" /\ DispatchWrote(code)) =>
                  /\ overrideLog.ran = <<code>>
                  /\ overrideLog.calls = OverrideCalls(LastStatusCall(code).handler, code)
                  /\ w.calls = overrideLog.calls

\* ---------------------------------------------------------------------------
\* The path table under registrations (SpecSchema).

\* C29: the keys of the path table are paths without the exact-match marker,
\* and a documented registration of method m on a pattern that ends without a
\* fault extends the descriptor of its path: the path is in the table, m has
\* an operation there, and the operation of every other method is as before.
C29_DocumentingExtends ==
    [][\A m \in TreeMethods, pat \in SchemaPatterns, d \in SchemaDecls :
         (Documents(m, pat, d) /\ fault' = NoFault)
         => LET p == StripPattern(FullPattern(nodes[1].basePath, pat))
            IN  /\ \A k \in DOMAIN paths' : StripPattern(k) = k
                /\ p \in DOMAIN paths'
                /\ paths'[p][m] # NoOperation
                /\ p \in DOMAIN paths =>
                      \A o \in SeqSet(ItemMethods) \ {m} : paths'[p][o] = paths[p][o]]_vars

\* C30: a register call on a node with documentation off, or without a
\* declaration, binds the route in the mux and leaves the path table and the
\* schema store as they were.
C30_UndocumentedLeavesTable ==
    [][\A m \in TreeMethods, pat \in SchemaPatterns, d \in SchemaDecls \cup {NoDocs} :
         (Handle(1, m, pat, d) /\ (~nodes[1].openapiDocs \/ d = NoDocs))
         => /\ Bound(m, FullPattern(nodes[1].basePath, pat))'
            /\ ~Bound(m, FullPattern(nodes[1].basePath, pat))
            /\ fault' = NoFault
            /\ paths' = paths
            /\ schemas' = schemas]_vars

\* A route registered without a declaration while documentation is on, and
\* one registered with a declaration while it is off, next to a documented one.
C30_Witness ==
    /\ DOMAIN paths = {<<Slash, "x", Slash>>}
    /\ \E r \in routes : r.method = "GET" /\ r.pattern = <<Slash, "x", Slash>>
    /\ \E r \in routes : r.method = "POST" /\ r.pattern = <<Slash, "x", Slash, "{$}">>
    /\ paths[<<Slash, "x", Slash>>]["POST"] = NoOperation
    /\ paths[<<Slash, "x", Slash>>]["GET"] # NoOperation
    /\ fault = NoFault

\* ---------------------------------------------------------------------------
\* The translation of samples (SpecSchema).

\* C31: the component stored for a struct type that is first declared as a
\* request body is the component handleDocOut derives for the type when it
\* is first declared as a response: same property names, types and kind.
C31_SameTranslation ==
    [][\A m \in TreeMethods, pat \in SchemaPatterns, d \in SchemaDecls :
         (/\ Documents(m, pat, d)
          /\ d.out = NoSample
          /\ Deref(d.in).kind = "struct"
          /\ d.in.name \notin DOMAIN schemas
          /\ fault' = NoFault)
         => /\ d.in.name \in DOMAIN schemas'
            /\ schemas'[d.in.name] = handleDocOut(d.in, schemas).components[d.in.name]]_vars

\* ---------------------------------------------------------------------------
\* Operation ids (SpecId).

\* The documented operations: the path and the method of each.
DocumentedOperations ==
    {<<p, m>> \in (DOMAIN paths) \X SeqSet(ItemMethods) : paths[p][m] # NoOperation}

\* C32: the operationID of a documented operation is the method followed by
\* the id made of its path, and two documented operations of different
\* {method, path} have different operationIDs.
C32_OperationIDUnique ==
    /\ \A o \in DocumentedOperations :
          paths[o[1]][o[2]].operationID = <<o[2]>> \o OperationID(o[1])
    /\ \A o1, o2 \in DocumentedOperations :
          o1 # o2 => paths[o1[1]][o1[2]].operationID # paths[o2[1]][o2[2]].operationID

\* ---------------------------------------------------------------------------
\* The empty request path (SpecEmpty).

\* C33: ServeHTTP ends without a fault for every request path, the empty path
\* too, with the redirection of trailing slashes on and off.
C33_ServeNeverFaults ==
    pc = "done" => fault = NoFault

\* ---------------------------------------------------------------------------
\* No deadlock on the root's lock (SpecLockFair).

\* Goroutine g has run its operation to the end.
Completed(g) == g \in DOMAIN acc /\ acc[g].at > Len(acc[g].op)

\* The lock is held by goroutines inside a section that took it, and only
\* by them.
HeldInsideOnly ==
    /\ mu.writer # 0 => mu.readers = {}
    /\ \A g \in DOMAIN acc :
          /\ mu.writer = g <=> (acc[g].in /\ acc[g].op[acc[g].at].lock = "W")
          /\ g \in mu.readers <=> (acc[g].in /\ acc[g].op[acc[g].at].lock = "R")

\* C34: registrations, the synthesis, method-set lookups and requests that
\* run together never deadlock: the lock is held only inside the section
\* that took it (none takes it twice, each gives it back), and every
\* operation that was started runs to its end.
C34_NoDeadlock ==
    /\ []HeldInsideOnly
    /\ \A g \in 1..MaxRequests : (g \in DOMAIN acc) ~> Completed(g)

\* A registration and a request that ran together to their ends.
C34_Witness ==
    /\ Len(acc) = 2
    /\ acc[1].op = ServeSections
    /\ acc[2].op = RegisterSections
    /\ Completed(1)
    /\ Completed(2)
    /\ mu = [writer |-> 0, readers |-> {}]

\* ---------------------------------------------------------------------------
\* Declarations with several responses (SpecOuts).

\* C35: the path table and the schema store after a register call are a
\* function of the tables before it and of the call: for a declaration with
\* two responses they are what they are when the entries are gone through
\* in the other order.
C35_OrderIndependent ==
    [][\A m \in TreeMethods, pat \in SchemaPatterns, x, y \in StructSamples :
         HandleOuts(m, pat, <<x, y>>, <<2, 1>>)
         => LET res == registerDocsWith(
                           paths, schemas, m, FullPattern(nodes[1].basePath, pat),
                           [given |-> TRUE, summary |-> "outs", out |-> x, in |-> NoSample,
                            out404 |-> y],
                           handleDocOutMap(<<x, y>>, schemas))
            IN  paths' = res.paths /\ schemas' = res.schemas]_vars

\* ---------------------------------------------------------------------------
\* Object and array samples of one type (SpecSchema).

\* C36: the component stored for a struct type that is first declared as a
\* response is of kind object with the properties of the type, whether the
\* sample is a value of the type or a slice of it.
C36_ComponentOfTypeNotOfSample ==
    [][\A m \in TreeMethods, pat \in SchemaPatterns, d \in SchemaDecls :
         (/\ Documents(m, pat, d)
          /\ d.in = NoSample
          /\ d.out.kind \in {"struct", "slice"}
          /\ d.out.name \notin DOMAIN schemas
          /\ fault' = NoFault)
         => /\ d.out.name \in DOMAIN schemas'
            /\ schemas'[d.out.name] = SchemaOf("object", OutProperties(d.out.shape))]_vars

\* ---------------------------------------------------------------------------
\* A register call that fails (SpecConflict).

\* C37: a register call that ends in the panic of a duplicate binding leaves
\* the path table and the schema store as they were and the root's lock
\* free, for writers and for readers.
C37_ConflictLeavesNoTrace ==
    [][\A m \in DocMethods, pat \in DocPatterns, d \in DocsDecls :
         (HandleConflict(1, m, pat, d) /\ fault' = MuxConflict)
         => /\ paths' = paths
            /\ schemas' = schemas
            /\ mu' = [writer |-> 0, readers |-> {}]
            /\ CanLock("W")'
            /\ CanLock("R")']_vars

\* A documented route was registered again with a declaration while
\* documentation was on, and a request was served after that.
C37_Witness ==
    /\ fault = MuxConflict
    /\ nodes[1].openapiDocs
    /\ DOMAIN paths # {}
    /\ pc = "done"
    /\ mu = [writer |-> 0, readers |-> {}]

\* ---------------------------------------------------------------------------
\* The status and the order of ContentLengthMiddleware (SpecContentLength).

\* The handler called WriteHeader.
CallsWriteHeader(log) == \E i \in DOMAIN log : log[i][1] = "WriteHeader"

\* C38: when the handler under ContentLengthMiddleware has written a body or
\* nothing and never called WriteHeader, the wrapped writer is given the
\* status 200, and not the status 0.
C38_DefaultStatusOK ==
    (pc = "done" /\ ~CallsWriteHeader(delegateLog))
    => /\ fault # InvalidStatusCode
       /\ w.wroteHeader
       /\ w.status = StatusOK

\* C39: the headers the wrapped writer sends with the status line have the
\* Content-Length, whatever the handler did, a WriteHeader before the body
\* included.
C39_LengthBeforeStatus ==
    (pc = "done" /\ CallsWriteHeader(delegateLog))
    => /\ w.wroteHeader
       /\ w.sentHdr.ContentLength # <<>>

====
